---- MODULE Spec2Model ----
(***************************************************************************)
(* Model of the answering pipeline of the portfolio chatbot:              *)
(* backend/app/rag/chain.py (RAGChain), backend/app/rag/free_llm.py,      *)
(* backend/app/rag/hybrid_retriever.py (HybridRetriever, QueryClassifier, *)
(* SmartRetriever) and backend/app/rag/vector_store.py.                   *)
(*                                                                         *)
(* Text produced by a collaborator outside the repository (a model        *)
(* backend, a retriever) is a symbolic term that records what produced it *)
(* and from which input, so two texts are equal only when the same        *)
(* backend was given the same input.                                      *)
(***************************************************************************)
EXTENDS Integers, Sequences, FiniteSets, TLC

\* ----------------------------------------------------------------- bounds
MaxHist == 2    \* longest conversation_history a caller supplies
MaxMem  == 4    \* most messages Conversation Memory holds in the model
MaxK    == 2    \* largest k a caller asks the Smart Retriever for, besides the default
MaxIndex == 4   \* most chunks an index grows to by appending
MaxRequests == 2 \* most requests sent to /chat
MaxCalls == 6   \* most check_rate_limit calls made on one RateLimiter
MaxTicks == 4   \* most times the clock is moved on between calls

\* ------------------------------------------------------------ input sets
Callers   == {1, 2}
Roles     == {"user", "assistant", "system"}
None      == [kind |-> "none"]
Txt(s)    == [kind |-> "text", s |-> s]
Contents  == {Txt("c1")}
Questions == {Txt("q1"), Txt("q2")}
Turns     == [role : Roles, content : Contents]
Histories == UNION {[1..n -> Turns] : n \in 0..MaxHist}

\* ----------------------------------------------------- program constants
\* chain.py:44, the default of fallback_models (main.py passes none)
DefaultFallbackModels == <<"gpt-3.5-turbo", "gpt-3.5-turbo-16k">>
\* chain.py:23 default and config.py:45 LLM_MODEL
ModelNames == {"gpt-4", "gpt-3.5-turbo"}
\* free_llm.py:15 and free_llm.py:96
HuggingFaceModel == "google/flan-t5-large"
GroqModel        == "llama3-8b-8192"
\* free_llm.py:80, 147, 151: the texts the free backends return on failure
HuggingFaceErrorText == Txt("I apologize, but I'm having trouble generating a response.")
GroqStatusErrorText  == Txt("Error contacting free API")
GroqExceptionText    == Txt("Free API temporarily unavailable")

\* config.py:41-42, what main.py:96-97 passes; temperatures in tenths
TEMPERATURE == 2
MAX_TOKENS  == 500
\* chain.py:257-258, the literals a fallback model is built with
FallbackTemperature == 2
FallbackMaxTokens   == 500
\* The values a RAGChain can be constructed with (chain.py:24-25).
Temperatures   == {0, TEMPERATURE}
MaxTokenValues == {256, MAX_TOKENS}

\* The retrievers RAGChain is constructed over (main.py:79-91).
VectorRetriever == [class |-> "VectorStoreRetriever"]
SmartRetriever  == [class |-> "SmartRetriever",
                    hybrid_retriever |-> [class |-> "HybridRetriever",
                                          vector_retriever |-> VectorRetriever]]
Retrievers == {VectorRetriever, SmartRetriever}

VARIABLES
    chain,    \* the RAGChain object: its construction state and its fields
    memory,   \* self.memory.chat_memory.messages
    calls,    \* per request slot: position in query() and its locals
    first,    \* the first call made on the chain: its question and answer
    hybrid,   \* the HybridRetriever object and what it indexes
    retrieved,\* the last call made on a retriever: its inputs and its outcome
    manager,  \* the VectorStoreManager object
    disk,     \* the persist directory and what is persisted in it
    app,      \* the serving process: startup outcome, cache, analytics, last response
    limiter   \* the RateLimiter object, the clock it reads and its last verdict

chainVars     == <<chain, memory, calls, first>>
retrieverVars == <<hybrid, retrieved>>
storeVars     == <<manager, disk>>
appVars       == <<app, limiter>>
vars == <<chain, memory, calls, first, hybrid, retrieved, manager, disk, app, limiter>>

\* ------------------------------------------------------------ free_llm.py
\* get_free_llm: which backend a free model_type yields; construction of a
\* HuggingFaceLLM loads a pipeline and may raise.
get_free_llm(model_type, groq_api_key, loadOk) ==
    IF model_type = "groq" /\ groq_api_key # "" /\ groq_api_key # "PASTE_YOUR_KEY_HERE"
    THEN [raised |-> FALSE, llm |-> [kind |-> "groq", model |-> GroqModel]]
    ELSE IF loadOk
         THEN [raised |-> FALSE, llm |-> [kind |-> "huggingface", model |-> HuggingFaceModel]]
         ELSE [raised |-> TRUE, llm |-> None]

\* The outcomes a backend call can have.
Outcomes(llm) ==
    IF llm.kind = "groq" THEN {"ok", "status", "exception"} ELSE {"ok", "exception"}

Generated(llm, input) == [kind |-> "generated", by |-> llm.model, input |-> input]

\* HuggingFaceLLM._call: an exception of the pipeline is caught and a fixed
\* text is returned.
HuggingFaceLLM_call(llm, input, outcome) ==
    IF outcome = "ok"
    THEN [raised |-> FALSE, text |-> Generated(llm, input)]
    ELSE [raised |-> FALSE, text |-> HuggingFaceErrorText]

\* GroqFreeLLM._call: a non-200 status and an exception both return a text.
GroqFreeLLM_call(llm, input, outcome) ==
    IF outcome = "ok"
    THEN [raised |-> FALSE, text |-> Generated(llm, input)]
    ELSE IF outcome = "status"
         THEN [raised |-> FALSE, text |-> GroqStatusErrorText]
         ELSE [raised |-> FALSE, text |-> GroqExceptionText]

\* ChatOpenAI: a failure of the API call raises.
ChatOpenAI_call(llm, input, outcome) ==
    IF outcome = "ok"
    THEN [raised |-> FALSE, text |-> Generated(llm, input)]
    ELSE [raised |-> TRUE, text |-> None]

\* The uniform call interface of the backends (langchain LLM.__call__).
LLMCall(llm, input, outcome) ==
    IF llm.kind = "huggingface" THEN HuggingFaceLLM_call(llm, input, outcome)
    ELSE IF llm.kind = "groq" THEN GroqFreeLLM_call(llm, input, outcome)
    ELSE ChatOpenAI_call(llm, input, outcome)

\* --------------------------------------------------- RAGChain.__init__
\* Lines 47-82: the model self.llm ends up holding.
InitLLM(model_name, fallback_models, use_free_model, free_model_type, groq_key, freeOk, primaryOk, fallbackOk) ==
    LET free == get_free_llm(free_model_type, groq_key, freeOk)
    IN  IF use_free_model /\ ~free.raised
        THEN [raised |-> FALSE, llm |-> free.llm]
        ELSE IF primaryOk
             THEN [raised |-> FALSE, llm |-> [kind |-> "openai", model |-> model_name]]
             ELSE IF fallbackOk
                  THEN [raised |-> FALSE,
                        llm |-> [kind |-> "openai", model |-> fallback_models[1]]]
                  ELSE [raised |-> TRUE, llm |-> None]

\* Lines 55-56, 70-71 and 79-80: whichever model __init__ builds is given
\* the temperature and max_tokens of the constructor call.
WithSampling(llm, temperature, max_tokens) ==
    [kind |-> llm.kind, model |-> llm.model,
     temperature |-> temperature, max_tokens |-> max_tokens]

\* Lines 94-100: the retriever the primary chain is built over.
BaseRetriever(retriever) ==
    IF "hybrid_retriever" \in DOMAIN retriever
    THEN retriever.hybrid_retriever.vector_retriever
    ELSE retriever

\* ------------------------------------------------- Conversation Memory
HumanMessage(content) == [type |-> "human", content |-> content]
AIMessage(content)    == [type |-> "ai", content |-> content]

\* The loop of _update_memory (lines 312-316): a turn is added as a human or
\* an ai message according to its role; any other role adds nothing.
RECURSIVE AddMessages(_, _)
AddMessages(messages, conversation_history) ==
    IF conversation_history = <<>> THEN messages
    ELSE LET message == Head(conversation_history)
             added == IF message.role = "user"
                      THEN Append(messages, HumanMessage(message.content))
                      ELSE IF message.role = "assistant"
                           THEN Append(messages, AIMessage(message.content))
                           ELSE messages
         IN  AddMessages(added, Tail(conversation_history))

\* memory.clear()
MemoryClear(messages) == <<>>

\* _update_memory without the clear.
_update_memory_noclear(messages, conversation_history) ==
    AddMessages(messages, conversation_history)

\* RAGChain._update_memory: clear, then add the history.
_update_memory(messages, conversation_history) ==
    AddMessages(MemoryClear(messages), conversation_history)

\* Lines 218-219: the memory is updated only when a history was supplied
\* (an empty list is falsy).
MemoryForCall(messages, conversation_history) ==
    IF conversation_history # <<>>
    THEN _update_memory(messages, conversation_history)
    ELSE messages

\* RAGChain.get_conversation_history: messages back to role/content turns.
RECURSIVE get_conversation_history(_)
get_conversation_history(messages) ==
    IF messages = <<>> THEN <<>>
    ELSE LET message == Head(messages)
             rest == get_conversation_history(Tail(messages))
         IN  IF message.type = "human"
             THEN <<[role |-> "user", content |-> message.content]>> \o rest
             ELSE IF message.type = "ai"
                  THEN <<[role |-> "assistant", content |-> message.content]>> \o rest
                  ELSE rest

\* The chain's memory.save_context after a successful call: the question
\* and the answer are appended (memory=self.memory, output_key="answer").
SaveContext(messages, question, answer) ==
    messages \o <<HumanMessage(question), AIMessage(answer)>>

\* ------------------------------------------------------ RAGChain.query
NumFallbacks == Len(DefaultFallbackModels)

IdleCall ==
    [pc |-> "idle", question |-> None, history |-> <<>>, slot |-> 0,
     error |-> None, chat_history |-> <<>>, standalone |-> None,
     docs |-> None, prompt |-> None, answer |-> None, attempts |-> <<>>,
     result |-> None, raised |-> None, carried |-> FALSE, clean |-> TRUE]

\* ChainStages with the prompt formatted before the evidence is retrieved.
ChainStages_swapped ==
    <<"load_memory", "condense", "format", "retrieve", "generate", "save_context">>

\* The steps of one call of a ConversationalRetrievalChain, in the order the
\* chain takes them.
ChainStages ==
    <<"load_memory", "condense", "retrieve", "format", "generate", "save_context">>

StageAfter(stage) ==
    LET i == CHOOSE k \in 1..Len(ChainStages) : ChainStages[k] = stage
    IN  IF i < Len(ChainStages) THEN ChainStages[i + 1] ELSE "package"

\* One step of the chain call of the current attempt.
Step(call) == [call EXCEPT !.pc = StageAfter(call.pc)]

Exception(call, stage) == [kind |-> "exception", slot |-> call.slot, stage |-> stage]

\* The model of an attempt: self.llm for self.chain (line 104), a new
\* ChatOpenAI for a fallback (lines 255-259).
LLMFor(slot) ==
    IF slot = 0 THEN chain.llm
    ELSE WithSampling([kind |-> "openai", model |-> chain.fallback_models[slot]],
                      FallbackTemperature, FallbackMaxTokens)

\* The retriever of an attempt: base_retriever for self.chain (line 105),
\* self.retriever for a fallback chain (line 264).
RetrieverFor(slot) ==
    IF slot = 0 THEN chain.base_retriever ELSE chain.retriever

\* NextSlot with a fallback skipped.
NextSlot_skip(slot) == slot + 2

\* The loop variable of "for fallback_model in self.fallback_models".
NextSlot(slot) == slot + 1

\* An attempt is begun: self.chain is called (line 222) or a fallback is
\* tried (line 252).
Begin(call) ==
    [call EXCEPT !.attempts = Append(@, [slot |-> call.slot, outcome |-> "running",
                                         docs |-> None])]

Ended(call, outcome) ==
    [call EXCEPT !.attempts[Len(call.attempts)].outcome = outcome]

\* An exception inside an attempt: the primary's is caught at line 246 and
\* kept as the exception being handled, a fallback's at line 293 (continue).
\* What the failed chain call had computed is dropped with it.
Caught(call, stage) ==
    [Ended(call, "raised") EXCEPT
        !.pc = "fallback",
        !.error = IF call.slot = 0 THEN Exception(call, stage) ELSE @,
        !.slot = NextSlot(call.slot),
        !.chat_history = <<>>, !.standalone = None, !.docs = None,
        !.prompt = None, !.clean = TRUE]

\* ModelUsed reporting the configured primary for a fallback's answer too.
ModelUsed_primary(slot) == chain.model_name

\* Lines 240 and 290: the model identifier reported in the result.
ModelUsed(slot) ==
    IF slot = 0 THEN chain.model_name ELSE chain.fallback_models[slot]

\* Lines 226-234 and 274-282: the sources built from the source documents.
Sources(docs) == [documents |-> docs, relevance_score |-> None]

\* Lines 236-241 and 286-291: the response dictionary; the processing time
\* is counted in attempts.
Response(call) ==
    [answer |-> call.answer, sources |-> Sources(call.docs),
     processing_time |-> Len(call.attempts), model_used |-> ModelUsed(call.slot)]

\* ReRaised raising the last fallback's exception instead.
ReRaised_last(call) ==
    [kind |-> "exception", slot |-> call.slot - 1, stage |-> "generate"]

\* Line 299: the bare raise re-raises the exception being handled.
ReRaised(call) == call.error

\* The input of the question generator and of the answer prompt
\* (lines 187-192: the template has the context and the question).
CondenseInput(question, chat_history) ==
    [task |-> "condense", question |-> question, chat_history |-> chat_history]
FormatPrompt(docs, question) ==
    [task |-> "answer", context |-> docs, question |-> question]

\* What a retriever returns for a query.
Retrieve(retriever, query) == [retriever |-> retriever.class, query |-> query]

\* Requests handled one at a time all take the first request slot.
FirstSlot == CHOOSE c \in Callers : \A d \in Callers : c <= d

Idle == \A c \in Callers : calls[c].pc = "idle"
Ready == chain.state = "ready"

\* RAGChain.__init__
Construct(retriever, model_name, temperature, max_tokens, use_free_model, free_model_type, groq_key, freeOk, primaryOk, fallbackOk) ==
    /\ chain.state = "unconstructed"
    /\ LET r == InitLLM(model_name, DefaultFallbackModels, use_free_model,
                        free_model_type, groq_key, freeOk, primaryOk, fallbackOk)
       IN  chain' = IF r.raised
                    THEN [state |-> "failed"]
                    ELSE [state |-> "ready",
                          retriever |-> retriever,
                          model_name |-> model_name,
                          fallback_models |-> DefaultFallbackModels,
                          temperature |-> temperature,
                          max_tokens |-> max_tokens,
                          llm |-> WithSampling(r.llm, temperature, max_tokens),
                          base_retriever |-> BaseRetriever(retriever)]
    /\ memory' = <<>>
    /\ UNCHANGED <<calls, first>>

\* query() is entered and, with a history, the memory is updated
\* (lines 214-219); then self.chain is called (line 222).
StartQuery(c, question, conversation_history) ==
    /\ Ready
    /\ calls[c].pc = "idle"
    /\ Len(MemoryForCall(memory, conversation_history)) + 2 <= MaxMem
    /\ memory' = MemoryForCall(memory, conversation_history)
    /\ calls' = [calls EXCEPT ![c] =
           Begin([IdleCall EXCEPT !.pc = ChainStages[1], !.question = question,
                                  !.history = conversation_history,
                                  !.carried = (memory # <<>>)])]
    /\ UNCHANGED <<chain, first>>

\* LoadMemory with a memory of the call's own.
LoadMemory_own(c) ==
    /\ calls[c].pc = "load_memory"
    /\ calls' = [calls EXCEPT ![c] =
           [Step(@) EXCEPT !.chat_history = _update_memory(<<>>, calls[c].history)]]
    /\ UNCHANGED <<chain, memory, first>>

\* The chain first loads chat_history from the memory.
LoadMemory(c) ==
    /\ calls[c].pc = "load_memory"
    /\ calls' = [calls EXCEPT ![c] = [Step(@) EXCEPT !.chat_history = memory]]
    /\ UNCHANGED <<chain, memory, first>>

\* With a chat history the chain has its model rephrase the question into a
\* standalone one; without, the question is used as it is.
Condense(c) ==
    LET call == calls[c] IN
    /\ call.pc = "condense"
    /\ IF call.chat_history = <<>>
       THEN calls' = [calls EXCEPT ![c] =
                [Step(@) EXCEPT !.standalone = call.question]]
       ELSE \E outcome \in Outcomes(LLMFor(call.slot)) :
                LET r == LLMCall(LLMFor(call.slot),
                                 CondenseInput(call.question, call.chat_history), outcome)
                IN  calls' = [calls EXCEPT ![c] =
                        IF r.raised THEN Caught(@, "condense")
                        ELSE [Step(@) EXCEPT !.standalone = r.text,
                                             !.clean = @ /\ outcome = "ok"]]
    /\ UNCHANGED <<chain, memory, first>>

\* The chain retrieves the evidence for the standalone question.
RetrieveDocs(c) ==
    LET call == calls[c] IN
    /\ call.pc = "retrieve"
    /\ \E ok \in BOOLEAN :
          calls' = [calls EXCEPT ![c] =
              IF ok
              THEN [Step(@) EXCEPT
                       !.docs = Retrieve(RetrieverFor(call.slot), call.standalone),
                       !.attempts[Len(call.attempts)].docs =
                           Retrieve(RetrieverFor(call.slot), call.standalone)]
              ELSE Caught(@, "retrieve")]
    /\ UNCHANGED <<chain, memory, first>>

\* The prompt template is filled with the evidence and the question.
Format(c) ==
    LET call == calls[c] IN
    /\ call.pc = "format"
    /\ calls' = [calls EXCEPT ![c] =
           [Step(@) EXCEPT !.prompt = FormatPrompt(call.docs, call.standalone)]]
    /\ UNCHANGED <<chain, memory, first>>

\* The model of the attempt is invoked on the prompt.
Generate(c) ==
    LET call == calls[c] IN
    /\ call.pc = "generate"
    /\ \E outcome \in Outcomes(LLMFor(call.slot)) :
          LET r == LLMCall(LLMFor(call.slot), call.prompt, outcome)
          IN  calls' = [calls EXCEPT ![c] =
                  IF r.raised THEN Caught(@, "generate")
                  ELSE [Step(@) EXCEPT !.answer = r.text,
                                       !.clean = @ /\ outcome = "ok"]]
    /\ UNCHANGED <<chain, memory, first>>

\* The chain saves the question and the answer to the memory and returns.
SaveToMemory(c) ==
    LET call == calls[c] IN
    /\ call.pc = "save_context"
    /\ memory' = SaveContext(memory, call.question, call.answer)
    /\ calls' = [calls EXCEPT ![c] = Ended(Step(@), "ok")]
    /\ UNCHANGED <<chain, first>>

\* What is remembered of the first call made on the chain: its question and
\* answer when it had no history and its primary model answered without a
\* backend failure.
FirstCall(call) ==
    IF call.pc = "package" /\ call.history = <<>> /\ call.slot = 0 /\ call.clean
    THEN [kind |-> "first", question |-> call.question, answer |-> call.answer]
    ELSE [kind |-> "other"]

\* Lines 224-244 and 272-291: the response is built and returned.
Return(c) ==
    LET call == calls[c] IN
    /\ call.pc = "package"
    /\ calls' = [calls EXCEPT ![c] =
           [@ EXCEPT !.pc = "returned", !.result = Response(call)]]
    /\ first' = IF first = None THEN FirstCall(call) ELSE first
    /\ UNCHANGED <<chain, memory>>

\* Lines 250-269 and 297-299: the next fallback is set up, or, when none is
\* left, the exception is re-raised.
FallbackLoop(c) ==
    LET call == calls[c] IN
    /\ call.pc = "fallback"
    /\ IF call.slot > Len(chain.fallback_models)
       THEN /\ calls' = [calls EXCEPT ![c] =
                [@ EXCEPT !.pc = "raised", !.raised = ReRaised(call)]]
            /\ first' = IF first = None THEN FirstCall(call) ELSE first
       ELSE /\ \E ok \in BOOLEAN :
                calls' = [calls EXCEPT ![c] =
                    IF ok THEN [Begin(@) EXCEPT !.pc = ChainStages[1]]
                    ELSE Caught(Begin(@), "construct")]
            /\ UNCHANGED first
    /\ UNCHANGED <<chain, memory>>

\* The caller has taken the result or the exception.
Finish(c) ==
    /\ calls[c].pc \in {"returned", "raised"}
    /\ calls' = [calls EXCEPT ![c] = IdleCall]
    /\ UNCHANGED <<chain, memory, first>>

\* RAGChain.clear_memory
ClearMemory ==
    /\ Ready
    /\ memory # <<>>
    /\ memory' = MemoryClear(memory)
    /\ UNCHANGED <<chain, calls, first>>

\* ------------------------------------------------------------ Python str
\* A str is the sequence of its characters, so that lower(), split() and
\* the substring test "in" are computed character by character.
UpperCase == <<"A", "B", "C", "D", "E", "F", "G", "H", "I", "J", "K", "L", "M", "N", "O", "P", "Q", "R", "S", "T", "U", "V", "W", "X", "Y", "Z">>
LowerCase == <<"a", "b", "c", "d", "e", "f", "g", "h", "i", "j", "k", "l", "m", "n", "o", "p", "q", "r", "s", "t", "u", "v", "w", "x", "y", "z">>

\* str.lower()
lower(s) ==
    [i \in 1..Len(s) |->
        IF \E j \in 1..Len(UpperCase) : UpperCase[j] = s[i]
        THEN LowerCase[CHOOSE j \in 1..Len(UpperCase) : UpperCase[j] = s[i]]
        ELSE s[i]]

\* "sub in s" on two str
str_in(sub, s) ==
    \E i \in 0..(Len(s) - Len(sub)) : SubSeq(s, i + 1, i + Len(sub)) = sub

\* str.split(): the maximal runs of non-blank characters, in order
RECURSIVE split(_)
split(s) ==
    IF s = <<>> THEN <<>>
    ELSE IF Head(s) = " " THEN split(Tail(s))
    ELSE LET n == CHOOSE m \in 1..Len(s) :
                      /\ \A i \in 1..m : s[i] # " "
                      /\ m = Len(s) \/ s[m + 1] = " "
         IN  <<SubSeq(s, 1, n)>> \o split(SubSeq(s, n + 1, Len(s)))

\* set(list)
set(list) == {list[i] : i \in 1..Len(list)}

\* list[:k]
Truncate(list, k) == SubSeq(list, 1, IF k < Len(list) THEN k ELSE Len(list))

\* ------------------------------------------- hybrid_retriever.py: inputs
\* A Document: its text and its metadata dictionary.
Document(page_content, metadata) == [page_content |-> page_content, metadata |-> metadata]

\* The chunks of the knowledge base the retrievers are built over.
Chunks ==
    <<Document(<<"P", "y", "t", "h", "o", "n", " ", "s", "k", "i", "l", "l", "s">>, [section |-> "technical_skills", type |-> "resume"]),
      Document(<<"p", "y", "t", "h", "o", "n", " ", "e", "x", "p", "e", "r", "t", "i", "s", "e">>, [section |-> "key_projects", type |-> "resume"]),
      Document(<<"b", "u", "i", "l", "t", " ", "a", " ", "c", "h", "a", "t", "b", "o", "t">>, [section |-> "key_projects", type |-> "resume"]),
      Document(<<"e", "m", "a", "i", "l", " ", "m", "e">>, [type |-> "profile"])>>

\* The document lists main.py can hand to the vector store and to
\* HybridRetriever: what the loader found, possibly nothing.
KnowledgeBases == {<<>>, SubSeq(Chunks, 1, 2), Chunks}

\* The queries put to the retrievers.
Queries ==
    {<<"P", "y", "t", "h", "o", "n", " ", "s", "k", "i", "l", "l", "s">>, <<"p", "y", "t", "h", "o", "n", " ", "s", "k", "i", "l", "l", "s">>, <<"g", "i", "t", "h", "u", "b">>, <<"G", "i", "t", "H", "u", "b">>,
     <<"p", "y">>, <<"w", "h", "a", "t", " ", "a", "r", "e", " ", "y", "o", "u">>, <<"e", "m", "a", "i", "l">>}

\* ------------------------------------------------------ program constants
TOP_K_RESULTS == 3      \* config.py:40, the k of the vector retriever
BM25_K        == 3      \* hybrid_retriever.py:31
DefaultK      == 10     \* hybrid_retriever.py:150, the default of k
DefaultWeights == <<7, 3>>    \* hybrid_retriever.py:27 and main.py:87, in tenths
RRF_C         == 60     \* the rank constant c of EnsembleRetriever

\* ----------------------------------------------------- QueryClassifier
\* QUERY_TYPES mutated: contact is looked at before projects.
QUERY_TYPES_reordered ==
    <<[category |-> "skills", keywords |-> <<<<"s", "k", "i", "l", "l">>, <<"t", "e", "c", "h", "n", "o", "l", "o", "g", "y">>, <<"p", "r", "o", "g", "r", "a", "m", "m", "i", "n", "g">>, <<"l", "a", "n", "g", "u", "a", "g", "e">>, <<"f", "r", "a", "m", "e", "w", "o", "r", "k">>, <<"t", "o", "o", "l">>>>],
      [category |-> "contact", keywords |-> <<<<"c", "o", "n", "t", "a", "c", "t">>, <<"e", "m", "a", "i", "l">>, <<"p", "h", "o", "n", "e">>, <<"r", "e", "a", "c", "h">>, <<"l", "i", "n", "k", "e", "d", "i", "n">>, <<"g", "i", "t", "h", "u", "b">>>>],
      [category |-> "projects", keywords |-> <<<<"p", "r", "o", "j", "e", "c", "t">>, <<"b", "u", "i", "l", "t">>, <<"c", "r", "e", "a", "t", "e", "d">>, <<"d", "e", "v", "e", "l", "o", "p", "e", "d">>, <<"w", "o", "r", "k", " ", "o", "n">>, <<"g", "i", "t", "h", "u", "b">>>>],
      [category |-> "experience", keywords |-> <<<<"e", "x", "p", "e", "r", "i", "e", "n", "c", "e">>, <<"w", "o", "r", "k", "e", "d">>, <<"j", "o", "b">>, <<"r", "o", "l", "e">>, <<"p", "o", "s", "i", "t", "i", "o", "n">>, <<"i", "n", "t", "e", "r", "n", "s", "h", "i", "p">>>>],
      [category |-> "education", keywords |-> <<<<"e", "d", "u", "c", "a", "t", "i", "o", "n">>, <<"d", "e", "g", "r", "e", "e">>, <<"u", "n", "i", "v", "e", "r", "s", "i", "t", "y">>, <<"s", "t", "u", "d", "i", "e", "d">>, <<"g", "r", "a", "d", "u", "a", "t", "e", "d">>>>],
      [category |-> "about", keywords |-> <<<<"a", "b", "o", "u", "t">>, <<"w", "h", "o">>, <<"b", "a", "c", "k", "g", "r", "o", "u", "n", "d">>, <<"s", "u", "m", "m", "a", "r", "y">>, <<"t", "e", "l", "l", " ", "m", "e">>>>],
      [category |-> "chatbot", keywords |-> <<<<"c", "h", "a", "t", "b", "o", "t">>, <<"h", "o", "w", " ", "d", "o", " ", "y", "o", "u", " ", "w", "o", "r", "k">>, <<"w", "h", "a", "t", " ", "a", "r", "e", " ", "y", "o", "u">>, <<"h", "o", "w", " ", "d", "o", "e", "s", " ", "t", "h", "i", "s", " ", "w", "o", "r", "k">>>>]>>

\* QUERY_TYPES (lines 83-91): a dict, iterated in insertion order.
QUERY_TYPES ==
    <<[category |-> "skills", keywords |-> <<<<"s", "k", "i", "l", "l">>, <<"t", "e", "c", "h", "n", "o", "l", "o", "g", "y">>, <<"p", "r", "o", "g", "r", "a", "m", "m", "i", "n", "g">>, <<"l", "a", "n", "g", "u", "a", "g", "e">>, <<"f", "r", "a", "m", "e", "w", "o", "r", "k">>, <<"t", "o", "o", "l">>>>],
      [category |-> "projects", keywords |-> <<<<"p", "r", "o", "j", "e", "c", "t">>, <<"b", "u", "i", "l", "t">>, <<"c", "r", "e", "a", "t", "e", "d">>, <<"d", "e", "v", "e", "l", "o", "p", "e", "d">>, <<"w", "o", "r", "k", " ", "o", "n">>, <<"g", "i", "t", "h", "u", "b">>>>],
      [category |-> "experience", keywords |-> <<<<"e", "x", "p", "e", "r", "i", "e", "n", "c", "e">>, <<"w", "o", "r", "k", "e", "d">>, <<"j", "o", "b">>, <<"r", "o", "l", "e">>, <<"p", "o", "s", "i", "t", "i", "o", "n">>, <<"i", "n", "t", "e", "r", "n", "s", "h", "i", "p">>>>],
      [category |-> "education", keywords |-> <<<<"e", "d", "u", "c", "a", "t", "i", "o", "n">>, <<"d", "e", "g", "r", "e", "e">>, <<"u", "n", "i", "v", "e", "r", "s", "i", "t", "y">>, <<"s", "t", "u", "d", "i", "e", "d">>, <<"g", "r", "a", "d", "u", "a", "t", "e", "d">>>>],
      [category |-> "contact", keywords |-> <<<<"c", "o", "n", "t", "a", "c", "t">>, <<"e", "m", "a", "i", "l">>, <<"p", "h", "o", "n", "e">>, <<"r", "e", "a", "c", "h">>, <<"l", "i", "n", "k", "e", "d", "i", "n">>, <<"g", "i", "t", "h", "u", "b">>>>],
      [category |-> "about", keywords |-> <<<<"a", "b", "o", "u", "t">>, <<"w", "h", "o">>, <<"b", "a", "c", "k", "g", "r", "o", "u", "n", "d">>, <<"s", "u", "m", "m", "a", "r", "y">>, <<"t", "e", "l", "l", " ", "m", "e">>>>],
      [category |-> "chatbot", keywords |-> <<<<"c", "h", "a", "t", "b", "o", "t">>, <<"h", "o", "w", " ", "d", "o", " ", "y", "o", "u", " ", "w", "o", "r", "k">>, <<"w", "h", "a", "t", " ", "a", "r", "e", " ", "y", "o", "u">>, <<"h", "o", "w", " ", "d", "o", "e", "s", " ", "t", "h", "i", "s", " ", "w", "o", "r", "k">>>>]>>

\* any(keyword in query_lower for keyword in keywords)
any_keyword_in(keywords, query_lower) ==
    \E i \in 1..Len(keywords) : str_in(keywords[i], query_lower)

\* The loop of classify (lines 107-109) from the i-th entry of QUERY_TYPES on.
RECURSIVE classify_from(_, _)
classify_from(i, query_lower) ==
    IF i > Len(QUERY_TYPES) THEN "general"
    ELSE IF any_keyword_in(QUERY_TYPES[i].keywords, query_lower)
         THEN QUERY_TYPES[i].category
         ELSE classify_from(i + 1, query_lower)

\* QueryClassifier.classify (lines 93-111)
classify(query) == classify_from(1, lower(query))

\* QueryClassifier.get_section_filter (lines 113-133); <<>> is the empty dict.
get_section_filter(category) ==
    CASE category = "skills"     -> [section |-> "technical_skills"]
      [] category = "projects"   -> [section |-> "key_projects"]
      [] category = "experience" -> [section |-> "professional_experience"]
      [] category = "education"  -> [section |-> "education"]
      [] category = "contact"    -> [type |-> "profile"]
      [] category = "about"      -> [section |-> "professional_summary"]
      [] OTHER                   -> <<>>

\* ------------------------------------------------------- HybridRetriever
\* The orders a retriever may rank an index in for a query: the index read
\* from any chunk on, forwards or backwards (all orders up to three chunks).
Rankings(index) ==
    LET n == Len(index)
        forward(i)  == [j \in 1..n |-> index[((i + j - 2) % n) + 1]]
        backward(i) == [j \in 1..n |-> index[((i - j + n) % n) + 1]]
    IN  {forward(i) : i \in 1..n} \cup {backward(i) : i \in 1..n}

\* TopN for a retriever that leaves out chunks it scores zero: any prefix.
TopN_nonzero(index, n) ==
    {Truncate(r, m) : r \in Rankings(index), m \in 0..n}

\* What a top-n retriever over an index can return for a query: the first
\* n chunks of a ranking of the index (all of them when there are fewer).
TopN(index, n) == {Truncate(r, n) : r \in Rankings(index)}

\* A sub-retriever's get_relevant_documents: its results, or an exception.
SubRetrieve(ok, results) ==
    IF ok THEN [raised |-> FALSE, results |-> results]
    ELSE [raised |-> TRUE, results |-> <<>>]

\* list.sort(reverse=True, key=lambda x: x[0]) on (score, item) pairs: by
\* descending score, equal scores keeping their order.
sort_reverse(scored) ==
    LET n == Len(scored)
        pos(i) == 1 + Cardinality({j \in 1..n : \/ scored[j][1] > scored[i][1]
                                               \/ (scored[j][1] = scored[i][1] /\ j < i)})
    IN  [p \in 1..n |-> scored[CHOOSE i \in 1..n : pos(i) = p]]

\* unique_by_key over the chained result lists, keyed by page_content.
RECURSIVE unique_by_key(_)
unique_by_key(docs) ==
    IF docs = <<>> THEN <<>>
    ELSE LET rest == unique_by_key(SubSeq(docs, 1, Len(docs) - 1))
             last == docs[Len(docs)]
         IN  IF \E i \in 1..Len(rest) : rest[i].page_content = last.page_content
             THEN rest ELSE Append(rest, last)

\* The product of the rank denominators, to keep the fused scores integral.
RECURSIVE RankScale(_)
RankScale(n) == IF n = 0 THEN 1 ELSE (n + RRF_C) * RankScale(n - 1)

\* The weighted reciprocal-rank score of a text: over both lists, the sum of
\* weight / (rank + c), here times 10 * RankScale.
rrf_score(page_content, doc_lists, weights) ==
    LET scale == RankScale(IF TOP_K_RESULTS > BM25_K THEN TOP_K_RESULTS ELSE BM25_K)
        term(l, r) == IF doc_lists[l][r].page_content = page_content
                      THEN weights[l] * (scale \div (r + RRF_C)) ELSE 0
        RECURSIVE sum(_, _)
        sum(l, r) == IF l > Len(doc_lists) THEN 0
                     ELSE IF r > Len(doc_lists[l]) THEN sum(l + 1, 1)
                     ELSE term(l, r) + sum(l, r + 1)
    IN  sum(1, 1)

\* EnsembleRetriever.weighted_reciprocal_rank: the distinct chunks of both
\* lists by descending fused score.
weighted_reciprocal_rank(doc_lists, weights) ==
    LET docs == unique_by_key(doc_lists[1] \o doc_lists[2])
        scored == [i \in 1..Len(docs) |->
                      <<rrf_score(docs[i].page_content, doc_lists, weights), docs[i]>>]
        sorted == sort_reverse(scored)
    IN  [i \in 1..Len(docs) |-> sorted[i][2]]

\* EnsembleRetriever.get_relevant_documents: both retrievers are asked, an
\* exception of either is the ensemble's; the lists are fused.
ensemble_retriever(weights, vector, bm25) ==
    IF vector.raised \/ bm25.raised
    THEN [raised |-> TRUE, results |-> <<>>]
    ELSE [raised |-> FALSE,
          results |-> weighted_reciprocal_rank(<<vector.results, bm25.results>>, weights)]

\* The except branch asking the keyword retriever.
HybridFallback_bm25(vector, bm25) == bm25

\* Lines 55-58: the except branch asks the vector retriever again.
HybridFallback(vector, bm25) == vector

\* HybridRetriever.get_relevant_documents (lines 41-58)
Hybrid_get_relevant_documents(weights, query, vector, bm25) ==
    LET fused == ensemble_retriever(weights, vector, bm25)
        out   == IF fused.raised THEN HybridFallback(vector, bm25) ELSE fused
    IN  [query |-> query, vector |-> vector, bm25 |-> bm25,
         degraded |-> fused.raised, raised |-> out.raised, results |-> out.results]

\* -------------------------------------------------------- SmartRetriever
\* The static synonym table of _expand_query (lines 208-215).
expansions(category) ==
    CASE category = "skills"     -> <<<<"e", "x", "p", "e", "r", "t", "i", "s", "e">>, <<"t", "e", "c", "h", "n", "o", "l", "o", "g", "i", "e", "s">>, <<"t", "o", "o", "l", "s">>, <<"p", "r", "o", "f", "i", "c", "i", "e", "n", "t">>, <<"e", "x", "p", "e", "r", "i", "e", "n", "c", "e", "d">>>>
      [] category = "projects"   -> <<<<"p", "o", "r", "t", "f", "o", "l", "i", "o">>, <<"b", "u", "i", "l", "t">>, <<"d", "e", "v", "e", "l", "o", "p", "e", "d">>, <<"c", "r", "e", "a", "t", "e", "d">>, <<"w", "o", "r", "k">>>>
      [] category = "experience" -> <<<<"w", "o", "r", "k", "e", "d">>, <<"e", "m", "p", "l", "o", "y", "m", "e", "n", "t">>, <<"j", "o", "b">>, <<"r", "o", "l", "e">>, <<"c", "a", "r", "e", "e", "r">>>>
      [] category = "education"  -> <<<<"d", "e", "g", "r", "e", "e">>, <<"s", "t", "u", "d", "i", "e", "d">>, <<"q", "u", "a", "l", "i", "f", "i", "c", "a", "t", "i", "o", "n">>, <<"u", "n", "i", "v", "e", "r", "s", "i", "t", "y">>, <<"a", "c", "a", "d", "e", "m", "i", "c">>>>
      [] category = "contact"    -> <<<<"e", "m", "a", "i", "l">>, <<"p", "h", "o", "n", "e">>, <<"r", "e", "a", "c", "h">>, <<"l", "i", "n", "k", "e", "d", "i", "n">>, <<"c", "o", "n", "n", "e", "c", "t">>>>
      [] category = "about"      -> <<<<"b", "a", "c", "k", "g", "r", "o", "u", "n", "d">>, <<"s", "u", "m", "m", "a", "r", "y">>, <<"b", "i", "o">>, <<"p", "r", "o", "f", "i", "l", "e">>, <<"o", "v", "e", "r", "v", "i", "e", "w">>>>
      [] OTHER                   -> <<>>

\* _expand_query appending three terms.
_expand_query_three(query, category) ==
    LET terms == expansions(category)
    IN  IF terms # <<>>
        THEN query \o <<" ">> \o terms[1] \o <<" ">> \o terms[2] \o <<" ">> \o terms[3]
        ELSE query

\* SmartRetriever._expand_query (lines 196-221)
_expand_query(query, category) ==
    LET terms == expansions(category)
    IN  IF terms # <<>>
        THEN query \o <<" ">> \o terms[1] \o <<" ">> \o terms[2]
        ELSE query

\* Lines 238-252: the relevance score of one document, doubled to stay
\* integral (2.0, 5.0 and 1.5 become 4, 10 and 3).
relevance_score(doc, query) ==
    LET query_lower == lower(query)
        query_words == set(split(query_lower))
        content_lower == lower(doc.page_content)
        content_words == set(split(content_lower))
        word_overlap == Cardinality(query_words \cap content_words)
        exact_match == IF str_in(query_lower, content_lower) THEN 10 ELSE 0
        partial_matches == Cardinality({qw \in query_words : str_in(qw, content_lower)})
    IN  (word_overlap * 4) + exact_match + (partial_matches * 3)

\* _rerank_documents scoring against the expanded query.
_rerank_documents_expanded(documents, query, k) ==
    IF documents = <<>> THEN documents
    ELSE LET expanded == _expand_query(query, classify(query))
             scored == [i \in 1..Len(documents) |->
                           <<relevance_score(documents[i], expanded), documents[i]>>]
             sorted == sort_reverse(scored)
         IN  Truncate([i \in 1..Len(sorted) |-> sorted[i][2]], k)

\* SmartRetriever._rerank_documents (lines 223-259)
_rerank_documents(documents, query, k) ==
    IF documents = <<>> THEN documents
    ELSE LET scored == [i \in 1..Len(documents) |->
                           <<relevance_score(documents[i], query), documents[i]>>]
             sorted == sort_reverse(scored)
         IN  Truncate([i \in 1..Len(sorted) |-> sorted[i][2]], k)

\* doc.metadata.get(key) == value for some key, value of the filter
matches_filter(doc, section_filter) ==
    \E key \in DOMAIN section_filter :
        key \in DOMAIN doc.metadata /\ doc.metadata[key] = section_filter[key]

\* The filtered list returned whether or not it is empty.
filter_results_strict(results, category, use_filter) ==
    IF use_filter /\ category # "general" /\ DOMAIN get_section_filter(category) # {}
    THEN SelectSeq(results, LAMBDA doc : matches_filter(doc, get_section_filter(category)))
    ELSE results

\* Lines 176-194: the post-retrieval filter; the filtered list is used only
\* when it is not empty.
filter_results(results, category, use_filter) ==
    IF use_filter /\ category # "general" /\ DOMAIN get_section_filter(category) # {}
    THEN LET filtered_results ==
                 SelectSeq(results, LAMBDA doc : matches_filter(doc, get_section_filter(category)))
         IN  IF filtered_results # <<>> THEN filtered_results ELSE results
    ELSE results

\* SmartRetriever.get_relevant_documents (lines 150-194); an exception of
\* the hybrid retriever is not caught.
Smart_get_relevant_documents(weights, query, use_filter, k, semantic, keyword, semOk, kwOk) ==
    LET category == classify(query)
        expanded_query == _expand_query(query, category)
        hybrid_call == Hybrid_get_relevant_documents(weights, expanded_query,
                           SubRetrieve(semOk, semantic), SubRetrieve(kwOk, keyword))
        results == _rerank_documents(hybrid_call.results, query, k)
    IN  [op |-> "smart", query |-> query, use_filter |-> use_filter, k |-> k,
         category |-> category, hybrid_call |-> hybrid_call,
         raised |-> hybrid_call.raised,
         results |-> IF hybrid_call.raised THEN <<>>
                     ELSE Truncate(filter_results(results, category, use_filter), k)]

\* ----------------------------------------------- retrievers: operations
\* No call has been made, or its outcome has been taken.
NotCalled == [op |-> "none"]

\* main.py:56-88: the vector store is created from the loaded documents
\* and HybridRetriever indexes the same documents for BM25; with no
\* documents there is no vector store and start-up fails at get_retriever.
ConstructHybrid(documents) ==
    /\ hybrid.state = "unconstructed"
    /\ hybrid' = IF documents = <<>> THEN [state |-> "failed"]
                 ELSE [state |-> "ready", documents |-> documents,
                       weights |-> DefaultWeights]
    /\ UNCHANGED retrieved

\* A call of HybridRetriever.get_relevant_documents: each sub-retriever
\* returns its top chunks for the query or raises.
HybridGet(query, semantic, keyword, semOk, kwOk) ==
    /\ hybrid.state = "ready"
    /\ retrieved.op = "none"
    /\ retrieved' = [op |-> "hybrid",
                     hybrid_call |-> Hybrid_get_relevant_documents(hybrid.weights, query,
                                         SubRetrieve(semOk, semantic), SubRetrieve(kwOk, keyword))]
    /\ UNCHANGED hybrid

\* A call of SmartRetriever.get_relevant_documents.
SmartGet(query, use_filter, k, semantic, keyword, semOk, kwOk) ==
    /\ hybrid.state = "ready"
    /\ retrieved.op = "none"
    /\ retrieved' = Smart_get_relevant_documents(hybrid.weights, query, use_filter, k,
                                                 semantic, keyword, semOk, kwOk)
    /\ UNCHANGED hybrid

\* update_weights that also rebuilds the keyword index, over nothing.
update_weights_rebuild(semantic_weight, keyword_weight) ==
    /\ hybrid.state = "ready"
    /\ hybrid' = [hybrid EXCEPT !.weights = <<semantic_weight, keyword_weight>>,
                                !.documents = <<>>]
    /\ UNCHANGED retrieved

\* HybridRetriever.update_weights (lines 64-77): the weight pair is replaced
\* and the EnsembleRetriever rebuilt over the same two retrievers; the
\* fusion step of the model is computed from hybrid.weights at each call.
update_weights(semantic_weight, keyword_weight) ==
    /\ hybrid.state = "ready"
    /\ hybrid' = [hybrid EXCEPT !.weights = <<semantic_weight, keyword_weight>>]
    /\ UNCHANGED retrieved

\* The caller has taken the outcome of the call.
RetrievalDone ==
    /\ retrieved.op # "none"
    /\ retrieved' = NotCalled
    /\ UNCHANGED hybrid

\* ---------------------------------------------------- VectorStoreManager
StoreTypes == {"chromadb", "faiss", "pinecone"}

NoStore == [set |-> FALSE, docs |-> <<>>]
NoIndex == [present |-> FALSE, docs |-> <<>>]

\* os.path.exists of what load_vector_store looks for: the directory for
\* chromadb (line 99), the file index.faiss for faiss (lines 108-109).
path_exists(store_type, d) ==
    IF store_type = "chromadb" THEN d.directory ELSE d.faiss.present

\* VectorStoreManager.__init__ (lines 34-51): the directory is created.
VectorStoreManagerInit(store_type) ==
    /\ manager.state = "unconstructed"
    /\ manager' = [state |-> "ready", store_type |-> store_type,
                   vector_store |-> NoStore, adding |-> <<>>, last |-> NotCalled]
    /\ disk' = [disk EXCEPT !.directory = TRUE]

\* load_vector_store (lines 90-123): what it returns and the store it
\* opened; opening raises when ok is false and the exception is caught.
\* Chroma opens whatever the directory holds, an empty collection if nothing.
load_result(store_type, d, ok) ==
    IF store_type \in {"chromadb", "faiss"} /\ path_exists(store_type, d) /\ ok
    THEN [returned |-> TRUE,
          vector_store |-> [set |-> TRUE,
                            docs |-> IF store_type = "chromadb" THEN d.chroma.docs ELSE d.faiss.docs]]
    ELSE [returned |-> FALSE, vector_store |-> NoStore]

load_vector_store(ok) ==
    /\ manager.state = "ready"
    /\ LET r == load_result(manager.store_type, disk, ok)
       IN  manager' = [manager EXCEPT
               !.vector_store = IF r.returned THEN r.vector_store ELSE @,
               !.last = [op |-> "load", returned |-> r.returned, before |-> manager.vector_store]]
    /\ UNCHANGED disk

\* create_vector_store (lines 53-88)
create_vector_store(documents) ==
    /\ manager.state = "ready"
    /\ IF documents = <<>> \/ manager.store_type \notin {"chromadb", "faiss"}
       THEN /\ manager' = [manager EXCEPT !.last = [op |-> "create", raised |-> TRUE]]
            /\ UNCHANGED disk
       ELSE /\ manager' = [manager EXCEPT !.vector_store = [set |-> TRUE, docs |-> documents],
                                          !.last = [op |-> "create", raised |-> FALSE]]
            /\ disk' = IF manager.store_type = "chromadb"
                       THEN [disk EXCEPT !.chroma = [present |-> TRUE, docs |-> documents]]
                       ELSE [disk EXCEPT !.faiss = [present |-> TRUE, docs |-> documents]]

\* The message of the ValueError of lines 133, 172, 207 and 229.
NotInitialized == "Vector store not initialized. Create or load first."

\* Batches handed to add_documents.
Batches == {<<>>, SubSeq(Chunks, 3, 3), SubSeq(Chunks, 3, 4)}

\* save_local / persist of the store the manager holds (lines 142, 146).
persist(store_type, d, docs) ==
    IF store_type = "chromadb"
    THEN [d EXCEPT !.chroma = [present |-> TRUE, docs |-> docs]]
    ELSE [d EXCEPT !.faiss = [present |-> TRUE, docs |-> docs]]

\* add_documents up to the library call (lines 132-141, 145): the guard on
\* the store, the early return on an empty batch, then the store object
\* starts taking the batch in.
add_documents(documents) ==
    /\ manager.state = "ready"
    /\ manager.adding = <<>>
    /\ IF ~manager.vector_store.set
       THEN manager' = [manager EXCEPT
                !.last = [op |-> "add_documents", raised |-> TRUE, error |-> NotInitialized]]
       ELSE IF documents = <<>> \/ manager.store_type \notin {"chromadb", "faiss"}
       THEN manager' = [manager EXCEPT
                !.last = [op |-> "add_documents", raised |-> FALSE, error |-> ""]]
       ELSE /\ Len(manager.vector_store.docs) + Len(documents) <= MaxIndex
            /\ manager' = [manager EXCEPT !.adding = documents]
    /\ UNCHANGED disk

\* add_documents from the library call on (lines 141-152): the store object
\* itself now holds the batch, then it is persisted; an exception of either
\* call is logged and raised again.
add_documents_done(outcome) ==
    /\ manager.state = "ready"
    /\ manager.adding # <<>>
    /\ LET docs == manager.vector_store.docs \o manager.adding
       IN  CASE outcome = "ok" ->
                  /\ manager' = [manager EXCEPT
                         !.vector_store.docs = docs, !.adding = <<>>,
                         !.last = [op |-> "add_documents", raised |-> FALSE, error |-> ""]]
                  /\ disk' = persist(manager.store_type, disk, docs)
             [] outcome = "add_failed" ->
                  /\ manager' = [manager EXCEPT
                         !.adding = <<>>,
                         !.last = [op |-> "add_documents", raised |-> TRUE, error |-> "add"]]
                  /\ UNCHANGED disk
             [] outcome = "persist_failed" ->
                  /\ manager' = [manager EXCEPT
                         !.vector_store.docs = docs, !.adding = <<>>,
                         !.last = [op |-> "add_documents", raised |-> TRUE, error |-> "persist"]]
                  /\ UNCHANGED disk

\* What a reader can find in the store object: its documents, and while
\* add_documents is inside the library call, nothing orders the reader
\* against the writer, so any part of the batch may already be there.
Visible ==
    {manager.vector_store.docs \o SubSeq(manager.adding, 1, j) : j \in 0..Len(manager.adding)}

\* The record a read leaves: what it returned, the index it ran against and
\* the append that was in flight.
ReadRecord(op, raised, results, seen) ==
    [op |-> op, raised |-> raised, results |-> results, seen |-> seen,
     before |-> manager.vector_store.docs, batch |-> manager.adding]

\* similarity_search with no index, answering with nothing instead of raising.
similarity_search_unset_silent(op) ==
    manager' = [manager EXCEPT !.last = ReadRecord(op, FALSE, <<>>, <<>>)]

\* similarity_search and similarity_search_with_score with no index
\* (lines 171-172, 206-207).
similarity_search_unset(op) ==
    manager' = [manager EXCEPT !.last = ReadRecord(op, TRUE, <<>>, <<>>)]

\* similarity_search (lines 154-189) and similarity_search_with_score
\* (lines 191-216): the k nearest chunks, an empty list when the search
\* raises.
similarity_search(op, k, ok) ==
    /\ manager.state = "ready"
    /\ IF ~manager.vector_store.set
       THEN similarity_search_unset(op)
       ELSE \E seen \in Visible :
               \E results \in (IF ok THEN TopN(seen, k) ELSE {<<>>}) :
                   manager' = [manager EXCEPT !.last = ReadRecord(op, FALSE, results, seen)]
    /\ UNCHANGED disk

\* get_retriever (lines 218-234)
get_retriever(search_kwargs) ==
    /\ manager.state = "ready"
    /\ IF ~manager.vector_store.set
       THEN manager' = [manager EXCEPT
                !.last = [op |-> "get_retriever", raised |-> TRUE, error |-> NotInitialized]]
       ELSE manager' = [manager EXCEPT
                !.last = [op |-> "get_retriever", raised |-> FALSE,
                          retriever |-> [kind |-> "vector", search_kwargs |-> search_kwargs]]]
    /\ UNCHANGED disk

\* get_document_count (lines 236-253)
get_document_count ==
    /\ manager.state = "ready"
    /\ IF ~manager.vector_store.set
       THEN manager' = [manager EXCEPT !.last = ReadRecord("count", FALSE, 0, <<>>)]
       ELSE \E seen \in Visible :
               manager' = [manager EXCEPT !.last = ReadRecord("count", FALSE, Len(seen), seen)]
    /\ UNCHANGED disk

\* The process ends; what was persisted stays.
Restart ==
    /\ manager.state = "ready"
    /\ manager' = [state |-> "unconstructed"]
    /\ UNCHANGED disk

\* ---------------------------------------------------- rate_limiter.py
\* Seconds: the two windows of check_rate_limit (lines 93, 109, 39) and
\* the two block durations (lines 100, 116, 59).
MinuteWindow == 60
HourWindow   == 3600
MinuteBlock  == 5 * 60
HourBlock    == 15 * 60

\* The limits a RateLimiter is constructed with (requests_per_minute,
\* requests_per_hour), and the steps the clock is advanced by.
Limits == {<<2, 4>>, <<1, 3>>}
ClockSteps == {30, 300, 900, 3600}

\* RateLimiter.__init__ (lines 16-32), for one client address.
RateLimiterInit(requests_per_minute, requests_per_hour) ==
    /\ limiter.state = "unconstructed"
    /\ limiter' = [state |-> "ready",
                   requests_per_minute |-> requests_per_minute,
                   requests_per_hour |-> requests_per_hour,
                   now |-> 0, ticks |-> 0, request_log |-> <<>>, blocked_ips |-> {},
                   calls |-> 0, last |-> NotCalled]

\* time.time() moves on between two calls.
Advance(d) ==
    /\ limiter.state = "ready"
    /\ limiter.ticks < MaxTicks
    /\ limiter' = [limiter EXCEPT !.now = @ + d, !.ticks = @ + 1]

\* _clean_old_requests (lines 34-43)
_clean_old_requests(log, now) == SelectSeq(log, LAMBDA e : e.ts > now - HourWindow)

\* The requests of the log made within the window that ends now
\* (lines 93-97, 109-113).
recent(log, now, window) == SelectSeq(log, LAMBDA e : e.ts > now - window)

\* _is_blocked (lines 45-55): the address is blocked until its unblock time.
_is_blocked(blocked_ips, now) == \E unblock_time \in blocked_ips : now < unblock_time

\* A limit that lets one request more through.
over_limit_lenient(count, limit) == count > limit + 1

\* The comparison of lines 99 and 115.
over_limit(count, limit) == count > limit

\* check_rate_limit (lines 63-129): the verdict, the log and the blocks
\* it leaves. A logged request carries whether it was allowed.
check_rate_limit_result(l) ==
    IF _is_blocked(l.blocked_ips, l.now)
    THEN [allowed |-> FALSE, reason |-> "temporarily_blocked", limit_type |-> "",
          retry_after |-> (CHOOSE t \in l.blocked_ips : TRUE) - l.now,
          request_log |-> l.request_log, blocked_ips |-> l.blocked_ips]
    ELSE LET log == Append(_clean_old_requests(l.request_log, l.now), [ts |-> l.now, allowed |-> FALSE])
         IN  IF over_limit(Len(recent(log, l.now, MinuteWindow)), l.requests_per_minute)
             THEN [allowed |-> FALSE, reason |-> "rate_limit_exceeded", limit_type |-> "per_minute",
                   retry_after |-> MinuteBlock,
                   request_log |-> log, blocked_ips |-> {l.now + MinuteBlock}]
             ELSE IF over_limit(Len(recent(log, l.now, HourWindow)), l.requests_per_hour)
             THEN [allowed |-> FALSE, reason |-> "rate_limit_exceeded", limit_type |-> "per_hour",
                   retry_after |-> HourBlock,
                   request_log |-> log, blocked_ips |-> {l.now + HourBlock}]
             ELSE [allowed |-> TRUE, reason |-> "", limit_type |-> "", retry_after |-> 0,
                   request_log |-> [log EXCEPT ![Len(log)].allowed = TRUE],
                   blocked_ips |-> {}]

\* The limiter after a call of check_rate_limit.
Checked(l) ==
    LET r == check_rate_limit_result(l)
    IN  [l EXCEPT
            !.request_log = r.request_log,
            !.blocked_ips = r.blocked_ips,
            !.calls = @ + 1,
            !.last = [op |-> "check_rate_limit", at |-> l.now,
                      allowed |-> r.allowed, reason |-> r.reason,
                      limit_type |-> r.limit_type, retry_after |-> r.retry_after,
                      blocked_before |-> l.blocked_ips]]

check_rate_limit ==
    /\ limiter.state = "ready"
    /\ limiter.calls < MaxCalls
    /\ limiter' = Checked(limiter)

\* ------------------------------------------------- content_safety.py
\* ' '.join(words)
RECURSIVE join(_)
join(words) ==
    IF words = <<>> THEN <<>>
    ELSE IF Len(words) = 1 THEN words[1]
    ELSE words[1] \o <<" ">> \o join(Tail(words))

\* re.sub(r'<[^>]+>', '', text): every '<' that is followed by one or more
\* characters other than '>' and then a '>' is removed with them.
RECURSIVE strip_tags(_)
strip_tags(s) ==
    IF s = <<>> THEN <<>>
    ELSE IF Head(s) = "<" /\ Len(s) >= 3 /\ s[2] # ">" /\ \E j \in 3..Len(s) : s[j] = ">"
    THEN LET j == CHOOSE k \in 3..Len(s) : s[k] = ">" /\ \A i \in 3..(k - 1) : s[i] # ">"
         IN  strip_tags(SubSeq(s, j + 1, Len(s)))
    ELSE <<Head(s)>> \o strip_tags(Tail(s))

\* The character class of the URL pattern of line 135: of the characters
\* the messages are written in, all but the blank.
UrlChar(c) == c # " "

UrlSchemes == <<<<"h", "t", "t", "p", ":", "/", "/">>, <<"h", "t", "t", "p", "s", ":", "/", "/">>>>

\* re.sub of the URL pattern: a scheme followed by one or more characters of
\* the class is removed with the whole run of them.
RECURSIVE strip_urls(_)
strip_urls(s) ==
    IF s = <<>> THEN <<>>
    ELSE LET starts == {i \in 1..Len(UrlSchemes) :
                           /\ Len(s) > Len(UrlSchemes[i])
                           /\ SubSeq(s, 1, Len(UrlSchemes[i])) = UrlSchemes[i]
                           /\ UrlChar(s[Len(UrlSchemes[i]) + 1])}
         IN  IF starts = {} THEN <<Head(s)>> \o strip_urls(Tail(s))
             ELSE LET n == CHOOSE m \in 1..Len(s) :
                               /\ \A i \in 1..m : UrlChar(s[i])
                               /\ m = Len(s) \/ ~UrlChar(s[m + 1])
                  IN  strip_urls(SubSeq(s, n + 1, Len(s)))

\* str.strip()
RECURSIVE strip(_)
strip(s) ==
    IF s = <<>> THEN <<>>
    ELSE IF Head(s) = " " THEN strip(Tail(s))
    ELSE IF s[Len(s)] = " " THEN strip(SubSeq(s, 1, Len(s) - 1))
    ELSE s

MaxMessageLength == 1000    \* line 138

\* ContentFilter.sanitize (lines 118-142)
sanitize(text) ==
    strip(Truncate(strip_urls(strip_tags(join(split(text)))), MaxMessageLength))

\* \w of the characters the messages are written in
WordChar(c) == \E j \in 1..Len(LowerCase) : LowerCase[j] = c \/ UpperCase[j] = c

\* \b at the two ends of s[i..j]
BoundaryBefore(s, i) == i = 1 \/ ~WordChar(s[i - 1])
BoundaryAfter(s, j) == j = Len(s) \/ ~WordChar(s[j + 1])

\* re.search(r'\b(w1|w2|...)\b', s)
search_word(words, s) ==
    \E k \in 1..Len(words) : \E i \in 1..(Len(s) - Len(words[k]) + 1) :
        /\ SubSeq(s, i, i + Len(words[k]) - 1) = words[k]
        /\ BoundaryBefore(s, i)
        /\ BoundaryAfter(s, i + Len(words[k]) - 1)

\* re.search(r'\b(a1|a2|...)\s+(b1|b2|...)', s)
search_pair(firsts, seconds, s) ==
    \E k \in 1..Len(firsts) : \E i \in 1..(Len(s) - Len(firsts[k]) + 1) :
        /\ SubSeq(s, i, i + Len(firsts[k]) - 1) = firsts[k]
        /\ BoundaryBefore(s, i)
        /\ \E m \in 1..Len(seconds) : \E j \in (i + Len(firsts[k]) + 1)..(Len(s) - Len(seconds[m]) + 1) :
              /\ \A b \in (i + Len(firsts[k]))..(j - 1) : s[b] = " "
              /\ SubSeq(s, j, j + Len(seconds[m]) - 1) = seconds[m]

\* BLOCKED_PATTERNS (lines 67-71)
BlockedWords == <<<<"h", "a", "c", "k">>,
      <<"e", "x", "p", "l", "o", "i", "t">>,
      <<"b", "r", "e", "a", "c", "h">>,
      <<"a", "t", "t", "a", "c", "k">>>>
BlockedFirsts == <<<<"p", "a", "s", "s", "w", "o", "r", "d">>,
      <<"c", "r", "e", "d", "e", "n", "t", "i", "a", "l">>,
      <<"s", "e", "c", "r", "e", "t">>,
      <<"k", "e", "y">>>>
BlockedSeconds == <<<<"s", "t", "e", "a", "l">>,
      <<"h", "a", "c", "k">>,
      <<"g", "e", "t">>>>
BlockedMore == <<<<"i", "l", "l", "e", "g", "a", "l">>,
      <<"f", "r", "a", "u", "d">>,
      <<"s", "c", "a", "m">>>>

\* ALLOWED_CONTEXTS (lines 74-79), each alternative written out; 'how do'
\* stands for 'how does' too.
ALLOWED_CONTEXTS ==
    <<<<"h", "o", "w", " ", "d", "o">>,
      <<"h", "o", "w", " ", "t", "o">>,
      <<"w", "h", "a", "t", " ", "i", "s">>,
      <<"w", "h", "a", "t", " ", "a", "r", "e">>,
      <<"e", "x", "p", "l", "a", "i", "n">>,
      <<"s", "e", "c", "u", "r", "i", "t", "y", " ", "m", "e", "a", "s", "u", "r", "e">>,
      <<"s", "e", "c", "u", "r", "i", "t", "y", " ", "p", "r", "a", "c", "t", "i", "c", "e">>,
      <<"s", "e", "c", "u", "r", "i", "t", "y", " ", "b", "e", "s", "t">>>>

\* ContentFilter.is_safe (lines 82-115)
is_safe(text) ==
    LET text_lower == lower(text)
        blocked == \/ search_word(BlockedWords, text_lower)
                   \/ search_pair(BlockedFirsts, BlockedSeconds, text_lower)
                   \/ search_word(BlockedMore, text_lower)
    IN  ~blocked \/ any_keyword_in(ALLOWED_CONTEXTS, text_lower)

\* ----------------------------------------------------------- routes.py
\* The words of line 104.
AvailabilityWords ==
    <<<<"a", "v", "a", "i", "l", "a", "b", "l", "e">>,
      <<"a", "v", "a", "i", "l", "a", "b", "i", "l", "i", "t", "y">>,
      <<"s", "t", "a", "r", "t", " ", "d", "a", "t", "e">>,
      <<"n", "o", "t", "i", "c", "e", " ", "p", "e", "r", "i", "o", "d">>>>

\* The test of line 104.
asks_availability(sanitized_message) ==
    any_keyword_in(AvailabilityWords, lower(sanitized_message))

\* scheduling_keywords (calendar_scheduler.py:117-121)
scheduling_keywords ==
    <<<<"s", "c", "h", "e", "d", "u", "l", "e">>,
      <<"m", "e", "e", "t", "i", "n", "g">>,
      <<"c", "a", "l", "l">>,
      <<"i", "n", "t", "e", "r", "v", "i", "e", "w">>,
      <<"c", "h", "a", "t">>,
      <<"d", "i", "s", "c", "u", "s", "s">>,
      <<"t", "a", "l", "k">>,
      <<"c", "o", "n", "n", "e", "c", "t">>,
      <<"a", "v", "a", "i", "l", "a", "b", "l", "e">>,
      <<"b", "o", "o", "k">>,
      <<"c", "a", "l", "e", "n", "d", "l", "y">>,
      <<"a", "p", "p", "o", "i", "n", "t", "m", "e", "n", "t">>,
      <<"t", "i", "m", "e">>,
      <<"m", "e", "e", "t">>>>

\* CalendarScheduler.detect_scheduling_intent (calendar_scheduler.py:105-139)
\* with the test of line 119 of routes.py: the confidence is 0.8 with intent
\* and 0.0 without, so the test is the intent.
detect_scheduling_intent(query) ==
    any_keyword_in(scheduling_keywords, lower(query))

\* ResponseCache._get_cache_key (cache.py:48-60) without the digest: the
\* normalised query.
_get_cache_key(query) == strip(lower(query))

\* The messages and histories sent to /chat.
Messages ==
    {<<"s", "k", "i", "l", "l", "s">>,
     <<" ", "S", "k", "i", "l", "l", "s">>,
     <<"h", "a", "c", "k", " ", "a", "v", "a", "i", "l", "a", "b", "l", "e">>,
     <<"A", "v", "a", "i", "l", "a", "b", "l", "e", " ", "t", "o", " ", "m", "e", "e", "t">>,
     <<"b", "o", "o", "k", " ", "a", " ", "c", "a", "l", "l">>,
     <<"n", "o", "t", "i", "c", "e", " ", "<", "b", ">", "p", "e", "r", "i", "o", "d">>}
ChatHistories == {<<>>, <<[role |-> "user", content |-> Txt("c1")]>>}

\* ResponseCache ttl (cache.py:181, 63-76), in seconds
CacheTTL == 24 * 3600

\* ResponseCache.get (cache.py:80-105): the cached response if there is a
\* live entry, and the cache afterwards: an expired entry is deleted.
cache_get(cache, query, now) ==
    LET found == {e \in cache : e.key = _get_cache_key(query)}
    IN  IF found = {} THEN [hit |-> FALSE, response |-> None, cache |-> cache]
        ELSE LET e == CHOOSE x \in found : TRUE
             IN  IF now > e.timestamp + CacheTTL
                 THEN [hit |-> FALSE, response |-> None, cache |-> cache \ found]
                 ELSE [hit |-> TRUE, response |-> e.response, cache |-> cache]

\* ResponseCache.set (cache.py:108-125)
cache_set(cache, query, response, now) ==
    LET found == {e \in cache : e.key = _get_cache_key(query)}
        hits == IF found = {} THEN 0 ELSE (CHOOSE x \in found : TRUE).hits
    IN  (cache \ found) \cup {[key |-> _get_cache_key(query), query |-> Truncate(query, 100),
                               response |-> response, timestamp |-> now, hits |-> hits + 1]}

\* The meeting type of detect_scheduling_intent (calendar_scheduler.py:126-130)
meeting_type(query) ==
    IF any_keyword_in(<<<<"t", "e", "c", "h", "n", "i", "c", "a", "l">>, <<"i", "n", "t", "e", "r", "v", "i", "e", "w">>>>, lower(query)) THEN "technical_interview"
    ELSE IF any_keyword_in(<<<<"p", "o", "r", "t", "f", "o", "l", "i", "o">>, <<"p", "r", "o", "j", "e", "c", "t">>>>, lower(query)) THEN "portfolio_review"
    ELSE "intro_call"

\* FallbackHandler.get_fallback_response (chain.py:342-364): one text,
\* whatever the question.
get_fallback_response(question) ==
    Txt("I apologize, but I'm having trouble processing your question at the moment.")

\* The sources of a response: none, or those of the result of query.
NoSources == [empty |-> TRUE]
SourcesOf(result) == [empty |-> FALSE, sources |-> result.sources]

\* A response of the handler: the ChatResponse, or the HTTPException raised.
ChatResponse(status, response, sources, model_used, processing_time) ==
    [status |-> status, response |-> response, sources |-> sources,
     model_used |-> model_used, processing_time |-> processing_time]

\* The branch with the availability words tested before everything else
\* that reads the message.
first_guard_availability_first(allowed, initialised, safe, availability, scheduling, cached) ==
    IF ~allowed THEN "rate_limit"
    ELSE IF ~initialised THEN "not_initialized"
    ELSE IF availability THEN "availability_manager"
    ELSE IF ~safe THEN "content_filter"
    ELSE IF scheduling THEN "calendar_scheduler"
    ELSE IF cached THEN "cache"
    ELSE "query"

\* The branch chat takes, in the order of its tests (routes.py:47, 58, 70,
\* 104, 119, 131-133).
first_guard(allowed, initialised, safe, availability, scheduling, cached) ==
    IF ~allowed THEN "rate_limit"
    ELSE IF ~initialised THEN "not_initialized"
    ELSE IF ~safe THEN "content_filter"
    ELSE IF availability THEN "availability_manager"
    ELSE IF scheduling THEN "calendar_scheduler"
    ELSE IF cached THEN "cache"
    ELSE "query"

\* The response of a branch that ends the request (routes.py:48-56, 59-62,
\* 72-78, 106-112, 123-129, 135).
guard_response(guard, rate, sanitized_message, cached) ==
    CASE guard = "rate_limit" ->
             ChatResponse(429, Txt(rate.reason), NoSources, "", 0)
      [] guard = "not_initialized" ->
             ChatResponse(503, Txt("RAG chain not initialized"), NoSources, "", 0)
      [] guard = "content_filter" ->
             ChatResponse(200, Txt("I'm sorry, but I can't process that request."), NoSources,
                          "content_filter", 0)
      [] guard = "availability_manager" ->
             ChatResponse(200, Txt("availability"), NoSources, "availability_manager", 1)
      [] guard = "calendar_scheduler" ->
             ChatResponse(200, Txt(meeting_type(sanitized_message)), NoSources,
                          "calendar_scheduler", 1)
      [] guard = "cache" -> cached.response

\* chat (routes.py:25-148) up to the call of rag_chain.query: the rate
\* limiter is asked, then the tests in their order; the first that fires
\* answers the request. Sentiment analysis, recruiter detection, the job-fit
\* analysis and the context size read the message and change nothing.
chat(message, conversation_history) ==
    /\ limiter.state = "ready"
    /\ app.pending = None
    /\ app.requests < MaxRequests
    /\ Idle
    /\ LET rate      == check_rate_limit_result(limiter)
           sanitized == sanitize(message)
           looked_up == cache_get(app.cache, sanitized, limiter.now)
           guard     == first_guard(rate.allowed, chain.state = "ready", is_safe(sanitized),
                                    asks_availability(sanitized),
                                    detect_scheduling_intent(sanitized),
                                    conversation_history = <<>> /\ looked_up.hit)
           request   == [message |-> message, sanitized_message |-> sanitized,
                         conversation_history |-> conversation_history, guard |-> guard]
       IN  /\ limiter' = Checked(limiter)
           /\ IF guard = "query"
              THEN /\ StartQuery(FirstSlot, Txt(sanitized), conversation_history)
                   /\ app' = [app EXCEPT
                          !.requests = @ + 1, !.pending = request,
                          !.cache = IF conversation_history = <<>> THEN looked_up.cache ELSE @]
              ELSE /\ UNCHANGED chainVars
                   /\ app' = [app EXCEPT
                          !.requests = @ + 1,
                          !.last = [op |-> "chat", request |-> request,
                                    response |-> guard_response(guard, rate, sanitized, looked_up)]]

\* What the except branch leaves in the cache, were the fallback response
\* cached like an answer.
cache_after_error_stored(cache, request, response, now) ==
    IF request.conversation_history = <<>>
    THEN cache_set(cache, request.sanitized_message, response, now)
    ELSE cache

\* What the except branch (routes.py:198-217) leaves in the cache.
cache_after_error(cache, request, response, now) == cache

\* chat from the return of rag_chain.query on (routes.py:150-217): the
\* answer is packaged, cached when the request carried no history, and
\* tracked; an exception of query is tracked as an error and answered with
\* the fallback text.
chat_done ==
    /\ app.pending # None
    /\ calls[FirstSlot].pc \in {"returned", "raised"}
    /\ calls' = [calls EXCEPT ![FirstSlot] = IdleCall]
    /\ LET request == app.pending IN
       IF calls[FirstSlot].pc = "returned"
       THEN LET result   == calls[FirstSlot].result
                response == ChatResponse(200, result.answer, SourcesOf(result),
                                         result.model_used, result.processing_time)
            IN  app' = [app EXCEPT
                    !.pending = None,
                    !.cache = IF request.conversation_history = <<>>
                              THEN cache_set(@, request.sanitized_message, response, limiter.now)
                              ELSE @,
                    !.queries = Append(@, [query |-> request.sanitized_message,
                                           category |-> classify(request.sanitized_message),
                                           processing_time |-> result.processing_time,
                                           sources |-> SourcesOf(result)]),
                    !.last = [op |-> "chat", request |-> request, response |-> response]]
       ELSE LET response == ChatResponse(200, get_fallback_response(request.message), NoSources,
                                         "fallback", 0)
            IN  app' = [app EXCEPT
                    !.pending = None,
                    !.cache = cache_after_error(@, request, response, limiter.now),
                    !.errors = Append(@, [error |-> calls[FirstSlot].raised,
                                          query |-> request.message]),
                    !.last = [op |-> "chat", request |-> request, response |-> response]]
    /\ UNCHANGED <<chain, memory, first, limiter>>

\* ------------------------------------------------------------ main.py
\* The serving process before startup: rag_chain is None, the cache and
\* the analytics are empty.
AppStopped ==
    [state |-> "stopped", error |-> "", loaded |-> FALSE, persisted |-> FALSE,
     rebuilt |-> FALSE, models_ok |-> FALSE,
     cache |-> {}, queries |-> <<>>, errors |-> <<>>, requests |-> 0, pending |-> None,
     last |-> NotCalled]

\* lifespan up to the RAGChain (lines 47-91) for the store type and the
\* chunks of ./data: the index is loaded, or built when load_vector_store
\* returns False and there are chunks; the local `documents` is bound only
\* on that second path, and HybridRetriever(documents=documents) reads it.
startup(store_type, d, data, loadOk) ==
    LET r         == load_result(store_type, d, loadOk)
        create    == ~r.returned /\ data # <<>>
        createOk  == create /\ store_type \in {"chromadb", "faiss"}
        store     == IF r.returned THEN r.vector_store
                     ELSE IF createOk THEN [set |-> TRUE, docs |-> data] ELSE NoStore
        error     == IF create /\ ~createOk THEN "ValueError: Unsupported store type"
                     ELSE IF ~store.set THEN "ValueError: Vector store not initialized"
                     ELSE IF r.returned THEN "UnboundLocalError: documents"
                     ELSE ""
    IN  [loaded |-> r.returned, rebuilt |-> createOk, vector_store |-> store,
         disk |-> IF createOk THEN persist(store_type, d, data) ELSE d,
         error |-> error, documents |-> data]

\* lifespan (lines 38-106) as a whole: an exception of any step is logged
\* and raised again, and the process does not serve.
lifespan(store_type, data, loadOk, use_free_model, freeOk, primaryOk, fallbackOk) ==
    /\ app.state = "stopped"
    /\ manager.state = "unconstructed"
    /\ LET d == [disk EXCEPT !.directory = TRUE]
           s == startup(store_type, d, data, loadOk)
           persisted == IF store_type = "chromadb" THEN disk.chroma.present
                        ELSE disk.faiss.present
           models_ok == ~InitLLM("gpt-3.5-turbo", DefaultFallbackModels, use_free_model,
                                 "huggingface", "", freeOk, primaryOk, fallbackOk).raised
       IN  /\ manager' = [state |-> "ready", store_type |-> store_type,
                          vector_store |-> s.vector_store, adding |-> <<>>,
                          last |-> IF s.error = ""
                                   THEN [op |-> "get_retriever", raised |-> FALSE,
                                         retriever |-> [kind |-> "vector",
                                                        search_kwargs |-> [k |-> TOP_K_RESULTS]]]
                                   ELSE NotCalled]
           /\ disk' = s.disk
           /\ IF s.error = ""
              THEN /\ ConstructHybrid(s.documents)
                   /\ Construct(SmartRetriever, "gpt-3.5-turbo", TEMPERATURE, MAX_TOKENS,
                                use_free_model, "huggingface", "", freeOk, primaryOk, fallbackOk)
              ELSE UNCHANGED <<chainVars, retrieverVars>>
           /\ app' = [app EXCEPT
                  !.state = IF s.error = "" /\ models_ok THEN "up" ELSE "failed",
                  !.error = IF s.error # "" THEN s.error
                            ELSE IF models_ok THEN "" ELSE "Exception: model",
                  !.loaded = s.loaded, !.persisted = persisted,
                  !.rebuilt = s.rebuilt, !.models_ok = models_ok]
    /\ UNCHANGED limiter

\* The process ends: every object is gone, what was persisted stays.
Shutdown ==
    /\ app.state \in {"up", "failed"}
    /\ \A c \in Callers : calls[c].pc \in {"idle", "returned", "raised"}
    /\ app' = AppStopped
    /\ manager' = [state |-> "unconstructed"]
    /\ hybrid' = [state |-> "unconstructed"]
    /\ retrieved' = NotCalled
    /\ chain' = [state |-> "unconstructed"]
    /\ memory' = <<>>
    /\ calls' = [c \in Callers |-> IdleCall]
    /\ first' = None
    /\ UNCHANGED <<disk, limiter>>


\* ------------------------------------------------------ specifications
Init ==
    /\ chain = [state |-> "unconstructed"]
    /\ memory = <<>>
    /\ calls = [c \in Callers |-> IdleCall]
    /\ first = None
    /\ hybrid = [state |-> "unconstructed"]
    /\ retrieved = NotCalled
    /\ manager = [state |-> "unconstructed"]
    /\ disk = [directory |-> FALSE, chroma |-> NoIndex, faiss |-> NoIndex]
    /\ app = AppStopped
    /\ limiter = [state |-> "unconstructed"]

ConstructNext ==
    \E retriever \in Retrievers, model_name \in ModelNames,
       use_free_model \in BOOLEAN, free_model_type \in {"huggingface", "groq"},
       groq_key \in {"", "gsk"}, freeOk \in BOOLEAN, primaryOk \in BOOLEAN,
       fallbackOk \in BOOLEAN :
        Construct(retriever, model_name, TEMPERATURE, MAX_TOKENS, use_free_model,
                  free_model_type, groq_key, freeOk, primaryOk, fallbackOk)

StartQueryNext ==
    \E question \in Questions, h \in Histories :
        Idle /\ StartQuery(FirstSlot, question, h)

ClearMemoryNext == Idle /\ ClearMemory

Next ==
    \/ ConstructNext /\ UNCHANGED <<retrieverVars, storeVars, appVars>>
    \/ StartQueryNext /\ UNCHANGED <<retrieverVars, storeVars, appVars>>
    \/ \E c \in Callers : LoadMemory(c) /\ UNCHANGED <<retrieverVars, storeVars, appVars>>
    \/ \E c \in Callers : Condense(c) /\ UNCHANGED <<retrieverVars, storeVars, appVars>>
    \/ \E c \in Callers : RetrieveDocs(c) /\ UNCHANGED <<retrieverVars, storeVars, appVars>>
    \/ \E c \in Callers : Format(c) /\ UNCHANGED <<retrieverVars, storeVars, appVars>>
    \/ \E c \in Callers : Generate(c) /\ UNCHANGED <<retrieverVars, storeVars, appVars>>
    \/ \E c \in Callers : SaveToMemory(c) /\ UNCHANGED <<retrieverVars, storeVars, appVars>>
    \/ \E c \in Callers : Return(c) /\ UNCHANGED <<retrieverVars, storeVars, appVars>>
    \/ \E c \in Callers : FallbackLoop(c) /\ UNCHANGED <<retrieverVars, storeVars, appVars>>
    \/ \E c \in Callers : Finish(c) /\ UNCHANGED <<retrieverVars, storeVars, appVars>>
    \/ ClearMemoryNext /\ UNCHANGED <<retrieverVars, storeVars, appVars>>

Spec == Init /\ [][Next]_vars

\* The answer generator over every configuration it can be constructed
\* with, asked one question without history at a time.
ConstructConfiguredNext ==
    \E retriever \in Retrievers, model_name \in ModelNames,
       temperature \in Temperatures, max_tokens \in MaxTokenValues,
       use_free_model \in BOOLEAN, free_model_type \in {"huggingface", "groq"},
       groq_key \in {"", "gsk"}, freeOk \in BOOLEAN, primaryOk \in BOOLEAN,
       fallbackOk \in BOOLEAN :
        Construct(retriever, model_name, temperature, max_tokens, use_free_model,
                  free_model_type, groq_key, freeOk, primaryOk, fallbackOk)

StartPlainQueryNext ==
    Idle /\ StartQuery(FirstSlot, Txt("q1"), <<>>)

ConfigNext ==
    \/ ConstructConfiguredNext /\ UNCHANGED <<retrieverVars, storeVars, appVars>>
    \/ StartPlainQueryNext /\ UNCHANGED <<retrieverVars, storeVars, appVars>>
    \/ \E c \in Callers : LoadMemory(c) /\ UNCHANGED <<retrieverVars, storeVars, appVars>>
    \/ \E c \in Callers : Condense(c) /\ UNCHANGED <<retrieverVars, storeVars, appVars>>
    \/ \E c \in Callers : RetrieveDocs(c) /\ UNCHANGED <<retrieverVars, storeVars, appVars>>
    \/ \E c \in Callers : Format(c) /\ UNCHANGED <<retrieverVars, storeVars, appVars>>
    \/ \E c \in Callers : Generate(c) /\ UNCHANGED <<retrieverVars, storeVars, appVars>>
    \/ \E c \in Callers : SaveToMemory(c) /\ UNCHANGED <<retrieverVars, storeVars, appVars>>
    \/ \E c \in Callers : Return(c) /\ UNCHANGED <<retrieverVars, storeVars, appVars>>
    \/ \E c \in Callers : FallbackLoop(c) /\ UNCHANGED <<retrieverVars, storeVars, appVars>>
    \/ \E c \in Callers : Finish(c) /\ UNCHANGED <<retrieverVars, storeVars, appVars>>

ConfigSpec == Init /\ [][ConfigNext]_vars

\* The history each of two callers sends with its request.
OverlappingHistory(c) ==
    IF c = FirstSlot THEN <<[role |-> "user", content |-> Txt("c1")]>>
    ELSE <<[role |-> "assistant", content |-> Txt("c1")]>>

\* Both requests arrive before either of them has been answered.
StartOverlappingNext ==
    /\ first = None
    /\ \E c \in Callers : StartQuery(c, Txt("q1"), OverlappingHistory(c))

\* The construction of main.py:93-100: the Smart Retriever and the
\* configured model, free or not.
ConstructDeployedNext ==
    \E use_free_model \in BOOLEAN, freeOk \in BOOLEAN, primaryOk \in BOOLEAN,
       fallbackOk \in BOOLEAN :
        Construct(SmartRetriever, "gpt-3.5-turbo", TEMPERATURE, MAX_TOKENS, use_free_model,
                  "huggingface", "", freeOk, primaryOk, fallbackOk)

\* Two callers on one RAGChain whose query() calls may overlap.
ConcurrentNext ==
    \/ ConstructDeployedNext /\ UNCHANGED <<retrieverVars, storeVars, appVars>>
    \/ StartOverlappingNext /\ UNCHANGED <<retrieverVars, storeVars, appVars>>
    \/ \E c \in Callers : LoadMemory(c) /\ UNCHANGED <<retrieverVars, storeVars, appVars>>
    \/ \E c \in Callers : Condense(c) /\ UNCHANGED <<retrieverVars, storeVars, appVars>>
    \/ \E c \in Callers : RetrieveDocs(c) /\ UNCHANGED <<retrieverVars, storeVars, appVars>>
    \/ \E c \in Callers : Format(c) /\ UNCHANGED <<retrieverVars, storeVars, appVars>>
    \/ \E c \in Callers : Generate(c) /\ UNCHANGED <<retrieverVars, storeVars, appVars>>
    \/ \E c \in Callers : SaveToMemory(c) /\ UNCHANGED <<retrieverVars, storeVars, appVars>>
    \/ \E c \in Callers : Return(c) /\ UNCHANGED <<retrieverVars, storeVars, appVars>>
    \/ \E c \in Callers : FallbackLoop(c) /\ UNCHANGED <<retrieverVars, storeVars, appVars>>
    \/ \E c \in Callers : Finish(c) /\ UNCHANGED <<retrieverVars, storeVars, appVars>>

ConcurrentSpec == Init /\ [][ConcurrentNext]_vars

\* The retrievers alone: a HybridRetriever is built and queried, directly
\* and through a SmartRetriever.
ConstructHybridNext ==
    \E documents \in KnowledgeBases : ConstructHybrid(documents)

HybridGetNext ==
    /\ hybrid.state = "ready"
    /\ retrieved.op = "none"
    /\ \E query \in Queries, semOk \in BOOLEAN, kwOk \in BOOLEAN :
        \E semantic \in TopN(hybrid.documents, TOP_K_RESULTS),
           keyword \in TopN(hybrid.documents, BM25_K) :
            HybridGet(query, semantic, keyword, semOk, kwOk)

SmartGetNext ==
    /\ hybrid.state = "ready"
    /\ retrieved.op = "none"
    /\ \E query \in Queries, use_filter \in BOOLEAN, k \in (1..MaxK) \cup {DefaultK},
         semOk \in BOOLEAN, kwOk \in BOOLEAN :
        \E semantic \in TopN(hybrid.documents, TOP_K_RESULTS),
           keyword \in TopN(hybrid.documents, BM25_K) :
            SmartGet(query, use_filter, k, semantic, keyword, semOk, kwOk)

RetrieverNext ==
    \/ ConstructHybridNext /\ UNCHANGED <<chainVars, storeVars, appVars>>
    \/ HybridGetNext /\ UNCHANGED <<chainVars, storeVars, appVars>>
    \/ SmartGetNext /\ UNCHANGED <<chainVars, storeVars, appVars>>
    \/ RetrievalDone /\ UNCHANGED <<chainVars, storeVars, appVars>>

RetrieverSpec == Init /\ [][RetrieverNext]_vars

\* The vector store manager alone, over process restarts.
StoreNext ==
    \/ (\E store_type \in StoreTypes : VectorStoreManagerInit(store_type))
            /\ UNCHANGED <<chainVars, retrieverVars, appVars>>
    \/ (\E ok \in BOOLEAN : load_vector_store(ok)) /\ UNCHANGED <<chainVars, retrieverVars, appVars>>
    \/ (\E documents \in KnowledgeBases : create_vector_store(documents))
            /\ UNCHANGED <<chainVars, retrieverVars, appVars>>
    \/ Restart /\ UNCHANGED <<chainVars, retrieverVars, appVars>>

StoreSpec == Init /\ [][StoreNext]_vars

\* The vector store manager with its index operations; a reader may run
\* while add_documents is under way.
IndexNext ==
    \/ (\E store_type \in StoreTypes : VectorStoreManagerInit(store_type))
            /\ UNCHANGED <<chainVars, retrieverVars, appVars>>
    \/ (\E ok \in BOOLEAN : load_vector_store(ok)) /\ UNCHANGED <<chainVars, retrieverVars, appVars>>
    \/ (\E documents \in KnowledgeBases : create_vector_store(documents))
            /\ UNCHANGED <<chainVars, retrieverVars, appVars>>
    \/ (\E documents \in Batches : add_documents(documents))
            /\ UNCHANGED <<chainVars, retrieverVars, appVars>>
    \/ (\E outcome \in {"ok", "add_failed", "persist_failed"} : add_documents_done(outcome))
            /\ UNCHANGED <<chainVars, retrieverVars, appVars>>
    \/ (\E op \in {"similarity_search", "similarity_search_with_score"},
           k \in {1, TOP_K_RESULTS}, ok \in BOOLEAN : similarity_search(op, k, ok))
            /\ UNCHANGED <<chainVars, retrieverVars, appVars>>
    \/ (\E k \in {TOP_K_RESULTS, DefaultK} : get_retriever([k |-> k]))
            /\ UNCHANGED <<chainVars, retrieverVars, appVars>>
    \/ get_document_count /\ UNCHANGED <<chainVars, retrieverVars, appVars>>
    \/ (Restart /\ manager.adding = <<>>) /\ UNCHANGED <<chainVars, retrieverVars, appVars>>

IndexSpec == Init /\ [][IndexNext]_vars

\* The serving process: the index is created, the Hybrid Retriever built
\* over the same chunks and the answer generator over it (main.py:47-100);
\* then questions are answered, the retrievers asked, weights changed and
\* batches appended.
WeightPairs == {DefaultWeights, <<5, 5>>}
ServedQueries ==
    {<<"P", "y", "t", "h", "o", "n", " ", "s", "k", "i", "l", "l", "s">>, <<"g", "i", "t", "h", "u", "b">>}

\* The rankings the two sub-retrievers return while serving: the index in
\* its own order or reversed, cut to the first n.
ServedTopN(index, n) ==
    {Truncate(index, n),
     Truncate([i \in 1..Len(index) |-> index[Len(index) + 1 - i]], n)}

ServeCreateIndexNext ==
    \/ manager.state = "unconstructed" /\ VectorStoreManagerInit("faiss")
    \/ /\ manager.state = "ready" /\ ~manager.vector_store.set
       /\ \E documents \in KnowledgeBases \ {<<>>} : create_vector_store(documents)

ServeConstructHybridNext ==
    /\ manager.state = "ready" /\ manager.vector_store.set
    /\ ConstructHybrid(manager.vector_store.docs)

ServeConstructChainNext ==
    /\ hybrid.state = "ready"
    /\ Construct(SmartRetriever, "gpt-3.5-turbo", TEMPERATURE, MAX_TOKENS, FALSE,
                 "huggingface", "", TRUE, TRUE, TRUE)

ServeQueryNext ==
    /\ retrieved.op = "none"
    /\ StartPlainQueryNext

ServeHybridGetNext ==
    /\ hybrid.state = "ready" /\ retrieved.op = "none" /\ Ready /\ Idle
    /\ \E query \in ServedQueries, semOk \in BOOLEAN, kwOk \in BOOLEAN :
         \E semantic \in ServedTopN(hybrid.documents, TOP_K_RESULTS),
            keyword \in ServedTopN(hybrid.documents, BM25_K) :
             HybridGet(query, semantic, keyword, semOk, kwOk)

ServeSmartGetNext ==
    /\ hybrid.state = "ready" /\ retrieved.op = "none" /\ Ready /\ Idle
    /\ \E query \in ServedQueries, use_filter \in BOOLEAN :
         \E semantic \in ServedTopN(hybrid.documents, TOP_K_RESULTS),
            keyword \in ServedTopN(hybrid.documents, BM25_K) :
             SmartGet(query, use_filter, DefaultK, semantic, keyword, TRUE, TRUE)

UpdateWeightsNext ==
    /\ Ready /\ Idle /\ retrieved.op = "none"
    /\ \E w \in WeightPairs : update_weights(w[1], w[2])

ServeAppendNext ==
    /\ Ready /\ Idle /\ retrieved.op = "none"
    /\ \/ \E documents \in Batches : add_documents(documents)
       \/ \E outcome \in {"ok", "add_failed", "persist_failed"} : add_documents_done(outcome)

ServeNext ==
    \/ ServeCreateIndexNext /\ UNCHANGED <<chainVars, retrieverVars, appVars>>
    \/ ServeConstructHybridNext /\ UNCHANGED <<chainVars, storeVars, appVars>>
    \/ ServeConstructChainNext /\ UNCHANGED <<retrieverVars, storeVars, appVars>>
    \/ ServeQueryNext /\ UNCHANGED <<retrieverVars, storeVars, appVars>>
    \/ \E c \in Callers : LoadMemory(c) /\ UNCHANGED <<retrieverVars, storeVars, appVars>>
    \/ \E c \in Callers : Condense(c) /\ UNCHANGED <<retrieverVars, storeVars, appVars>>
    \/ \E c \in Callers : RetrieveDocs(c) /\ UNCHANGED <<retrieverVars, storeVars, appVars>>
    \/ \E c \in Callers : Format(c) /\ UNCHANGED <<retrieverVars, storeVars, appVars>>
    \/ \E c \in Callers : Generate(c) /\ UNCHANGED <<retrieverVars, storeVars, appVars>>
    \/ \E c \in Callers : SaveToMemory(c) /\ UNCHANGED <<retrieverVars, storeVars, appVars>>
    \/ \E c \in Callers : Return(c) /\ UNCHANGED <<retrieverVars, storeVars, appVars>>
    \/ \E c \in Callers : FallbackLoop(c) /\ UNCHANGED <<retrieverVars, storeVars, appVars>>
    \/ \E c \in Callers : Finish(c) /\ UNCHANGED <<retrieverVars, storeVars, appVars>>
    \/ ServeHybridGetNext /\ UNCHANGED <<chainVars, storeVars, appVars>>
    \/ ServeSmartGetNext /\ UNCHANGED <<chainVars, storeVars, appVars>>
    \/ RetrievalDone /\ UNCHANGED <<chainVars, storeVars, appVars>>
    \/ UpdateWeightsNext /\ UNCHANGED <<chainVars, storeVars, appVars>>
    \/ ServeAppendNext /\ UNCHANGED <<chainVars, retrieverVars, appVars>>

ServeSpec == Init /\ [][ServeNext]_vars

\* The rate limiter alone: calls from one address as the clock moves on.
LimiterNext ==
    \/ (\E l \in Limits : RateLimiterInit(l[1], l[2]))
            /\ UNCHANGED <<chainVars, retrieverVars, storeVars, app>>
    \/ (\E d \in ClockSteps : Advance(d))
            /\ UNCHANGED <<chainVars, retrieverVars, storeVars, app>>
    \/ check_rate_limit /\ UNCHANGED <<chainVars, retrieverVars, storeVars, app>>

LimiterSpec == Init /\ [][LimiterNext]_vars

\* The process over restarts: startup with the configured store type and
\* whatever ./data and the persist directory hold.
LifespanNext ==
    \E store_type \in StoreTypes, data \in KnowledgeBases, loadOk \in BOOLEAN,
       use_free_model \in BOOLEAN, freeOk \in BOOLEAN, primaryOk \in BOOLEAN,
       fallbackOk \in BOOLEAN :
        lifespan(store_type, data, loadOk, use_free_model, freeOk, primaryOk, fallbackOk)

StartupNext ==
    \/ LifespanNext
    \/ Shutdown

StartupSpec == Init /\ [][StartupNext]_vars

\* The /chat endpoint: requests are handled one at a time and the clock
\* moves on between them; the limiter is the module's, built with small
\* limits, and the chain is the one startup builds, or none.
ChatConstructNext ==
    Construct(SmartRetriever, "gpt-3.5-turbo", TEMPERATURE, MAX_TOKENS, FALSE,
              "huggingface", "", TRUE, TRUE, TRUE)

ChatNext ==
    \/ RateLimiterInit(1, 4) /\ UNCHANGED <<chainVars, retrieverVars, storeVars, app>>
    \/ ChatConstructNext /\ UNCHANGED <<retrieverVars, storeVars, appVars>>
    \/ (app.pending = None /\ limiter.state = "ready" /\ limiter.ticks < app.requests
            /\ \E d \in {300, 4 * CacheTTL} : Advance(d))
            /\ UNCHANGED <<chainVars, retrieverVars, storeVars, app>>
    \/ (\E message \in Messages, h \in ChatHistories : chat(message, h))
            /\ UNCHANGED <<retrieverVars, storeVars>>
    \/ \E c \in Callers : LoadMemory(c) /\ UNCHANGED <<retrieverVars, storeVars, appVars>>
    \/ \E c \in Callers : Condense(c) /\ UNCHANGED <<retrieverVars, storeVars, appVars>>
    \/ \E c \in Callers : RetrieveDocs(c) /\ UNCHANGED <<retrieverVars, storeVars, appVars>>
    \/ \E c \in Callers : Format(c) /\ UNCHANGED <<retrieverVars, storeVars, appVars>>
    \/ \E c \in Callers : Generate(c) /\ UNCHANGED <<retrieverVars, storeVars, appVars>>
    \/ \E c \in Callers : SaveToMemory(c) /\ UNCHANGED <<retrieverVars, storeVars, appVars>>
    \/ \E c \in Callers : Return(c) /\ UNCHANGED <<retrieverVars, storeVars, appVars>>
    \/ \E c \in Callers : FallbackLoop(c) /\ UNCHANGED <<retrieverVars, storeVars, appVars>>
    \/ chat_done /\ UNCHANGED <<retrieverVars, storeVars>>

ChatSpec == Init /\ [][ChatNext]_vars

\* ================================================================ claims
Returned(c) == calls[c].pc = "returned"
Raised(c)   == calls[c].pc = "raised"
Last(seq)   == seq[Len(seq)]

\* C1: the attempts of a call are a prefix of primary, fallback 1, ...,
\* fallback N in that order, each at most once; an attempt is begun only
\* when every earlier one raised, so nothing follows a success; a call that
\* returned ended with a successful attempt, and a call raises only when the
\* primary and all N fallbacks raised.
C1_FallbackChainOrder ==
    \A c \in Callers :
        LET a == calls[c].attempts IN
        /\ \A i \in 1..Len(a) : a[i].slot = i - 1
        /\ \A i \in 1..Len(a) : i < Len(a) => a[i].outcome = "raised"
        /\ Returned(c) => a # <<>> /\ Last(a).outcome = "ok"
        /\ Raised(c) => /\ Len(a) = NumFallbacks + 1
                        /\ \A i \in 1..Len(a) : a[i].outcome = "raised"

\* The primary and the first fallback raised and the last fallback answered.
C1_Witness ==
    \E c \in Callers :
        /\ Returned(c)
        /\ Len(calls[c].attempts) = NumFallbacks + 1
        /\ calls[c].attempts[1].outcome = "raised"

\* C2: when the primary raised and a fallback answered, the result names
\* that fallback: model_used is the configured identifier of the fallback
\* whose attempt succeeded, which is the model that generated the answer.
C2_FallbackModelUsed ==
    \A c \in Callers :
        LET a == calls[c].attempts IN
        (Returned(c) /\ Len(a) > 1) =>
            /\ calls[c].result.model_used = DefaultFallbackModels[Last(a).slot]
            /\ calls[c].result.model_used = calls[c].result.answer.by

C2_Witness ==
    \E c \in Callers :
        /\ Returned(c)
        /\ Len(calls[c].attempts) = 2
        /\ calls[c].attempts[1].outcome = "raised"
        /\ calls[c].result.model_used = DefaultFallbackModels[1]

\* C3: a result produced without any fallback names the model that
\* generated the answer, whichever way the chain was constructed.
C3_ModelUsedIsActualModel ==
    \A c \in Callers :
        (Returned(c) /\ Len(calls[c].attempts) = 1) =>
            calls[c].result.model_used = chain.llm.model

\* C4: when the primary and every fallback raised, the call raises the
\* exception of the primary attempt and has no result; every result has the
\* four keys answer, sources, processing_time and model_used.
C4_TotalFailureRaisesPrimaryError ==
    \A c \in Callers :
        LET a == calls[c].attempts
            allRaised == /\ Len(a) = NumFallbacks + 1
                         /\ \A i \in 1..Len(a) : a[i].outcome = "raised"
        IN  /\ allRaised => calls[c].result = None
            /\ Raised(c) => /\ allRaised
                            /\ calls[c].raised.kind = "exception"
                            /\ calls[c].raised.slot = 0
            /\ Returned(c) =>
                   DOMAIN calls[c].result =
                       {"answer", "sources", "processing_time", "model_used"}

C4_Witness == \E c \in Callers : Raised(c) /\ calls[c].raised.stage = "generate"

\* C5: a failure of the backend during generation is never handed back as
\* the answer of a result: a call returns only answers generated without a
\* backend failure, never the text of a failure.
C5_BackendFailureNotAnAnswer ==
    \A c \in Callers :
        Returned(c) =>
            /\ calls[c].clean
            /\ calls[c].result.answer \notin
                   {HuggingFaceErrorText, GroqStatusErrorText, GroqExceptionText}

\* The user and assistant turns of a history.
UserAssistantTurns(h) == SelectSeq(h, LAMBDA t : t.role \in {"user", "assistant"})

\* C6: at the point of generation the memory holds exactly the turns of the
\* history supplied to the call, also when that history is empty.
C6_MemoryIsSuppliedHistory ==
    \A c \in Callers :
        calls[c].pc = "generate" =>
            get_conversation_history(memory) = UserAssistantTurns(calls[c].history)

\* C7: clear_memory leaves the memory empty, and the memory update of a call
\* with a history h leaves exactly the user and assistant turns of h, in
\* order and with their roles, whatever the memory held before.
C7_MemoryReconciliation ==
    [][/\ ClearMemory => get_conversation_history(memory') = <<>>
       /\ \A c \in Callers :
              (/\ calls[c].pc = "idle"
               /\ calls'[c].pc # "idle"
               /\ calls'[c].history # <<>>) =>
                  get_conversation_history(memory') =
                      UserAssistantTurns(calls'[c].history)]_vars

\* A memory that held something was updated with a two-turn history.
C7_Witness ==
    \E c \in Callers :
        /\ calls[c].pc = "load_memory"
        /\ calls[c].slot = 0
        /\ calls[c].carried
        /\ Len(calls[c].history) = 2
        /\ calls[c].history[1].role = "assistant"
        /\ calls[c].history[2].role = "user"
        /\ Len(memory) = 2

\* C8: a call with an empty history whose primary model answered without a
\* backend failure returns the answer the first call of the chain returned
\* for the same question under the same conditions.
C8_SameAnswerForSameQuestion ==
    \A c \in Callers :
        (/\ Returned(c)
         /\ calls[c].history = <<>>
         /\ Len(calls[c].attempts) = 1
         /\ calls[c].clean
         /\ first.kind = "first"
         /\ first.question = calls[c].question) =>
            calls[c].result.answer = first.answer

C10_SameRetrievalContext ==
    \A c \in Callers :
        LET a == calls[c].attempts IN
        \A i, j \in 1..Len(a) :
            (a[i].docs # None /\ a[j].docs # None) => a[i].docs = a[j].docs

\* C11: on a chain constructed over a SmartRetriever, the evidence of every
\* attempt, and the sources a call returns, come from the Smart Retriever.
C11_EvidenceFromSmartRetriever ==
    (Ready /\ chain.retriever.class = "SmartRetriever") =>
        \A c \in Callers :
            /\ \A i \in 1..Len(calls[c].attempts) :
                    calls[c].attempts[i].docs # None =>
                        calls[c].attempts[i].docs.retriever = "SmartRetriever"
            /\ Returned(c) =>
                    calls[c].result.sources.documents.retriever = "SmartRetriever"

\* ------------------------------------------------- claims on the retrievers
HybridCalled == retrieved.op # "none"
SmartCalled  == retrieved.op = "smart" /\ ~retrieved.raised

\* C12: when the keyword retriever raises and the semantic one does not,
\* HybridRetriever.get_relevant_documents does not raise and returns exactly
\* the semantic retriever's results for the query.
C12_KeywordFailureDegradesToSemantic ==
    (HybridCalled /\ retrieved.hybrid_call.bm25.raised /\ ~retrieved.hybrid_call.vector.raised) =>
        /\ ~retrieved.hybrid_call.raised
        /\ retrieved.hybrid_call.results = retrieved.hybrid_call.vector.results

C12_Witness ==
    /\ retrieved.op = "hybrid"
    /\ retrieved.hybrid_call.bm25.raised
    /\ retrieved.hybrid_call.degraded
    /\ Len(retrieved.hybrid_call.results) = TOP_K_RESULTS

\* C13: when the semantic retriever raises and the keyword one does not,
\* HybridRetriever.get_relevant_documents does not raise and returns the
\* keyword retriever's results.
C13_SemanticFailureDegradesToKeyword ==
    (HybridCalled /\ retrieved.hybrid_call.vector.raised /\ ~retrieved.hybrid_call.bm25.raised) =>
        /\ ~retrieved.hybrid_call.raised
        /\ retrieved.hybrid_call.results = retrieved.hybrid_call.bm25.results

CategoryOrder ==
    <<"skills", "projects", "experience", "education", "contact", "about", "chatbot">>
Categories == set(CategoryOrder) \cup {"general"}

\* The places in CategoryOrder of the categories a keyword of which occurs
\* in a lower-cased query.
Hits(query_lower) ==
    {n \in 1..Len(CategoryOrder) :
        \E i \in 1..Len(QUERY_TYPES) :
            /\ QUERY_TYPES[i].category = CategoryOrder[n]
            /\ \E w \in set(QUERY_TYPES[i].keywords) : str_in(w, query_lower)}

\* C15: classify returns the first category, in the order skills, projects,
\* experience, education, contact, about, chatbot, a keyword of which occurs
\* in the lower-cased query, and general when there is none; queries equal
\* up to letter case get the same category, one of the eight.
C15_ClassifyFirstMatch ==
    retrieved.op = "smart" =>
        LET hits == Hits(lower(retrieved.query))
        IN  /\ retrieved.category \in Categories
            /\ retrieved.category =
                  IF hits = {} THEN "general"
                  ELSE CategoryOrder[CHOOSE n \in hits : \A m \in hits : n <= m]
            /\ \A other \in Queries :
                  lower(other) = lower(retrieved.query) => classify(other) = retrieved.category

C15_Witness ==
    /\ retrieved.op = "smart"
    /\ Cardinality(Hits(lower(retrieved.query))) > 1
    /\ \E other \in Queries : other # retrieved.query /\ lower(other) = lower(retrieved.query)

\* The hybrid retriever's results re-ranked against the original query,
\* all of them.
Reranked ==
    _rerank_documents(retrieved.hybrid_call.results, retrieved.query,
                      Len(retrieved.hybrid_call.results))

\* The chunks of a list that match the filter of the query's category.
Matching(list) ==
    SelectSeq(list, LAMBDA doc : matches_filter(doc, get_section_filter(retrieved.category)))

\* C16: when the re-ranked list is not empty and none of its chunks matches
\* the category's filter, the Smart Retriever returns the re-ranked list
\* truncated to k, which is not empty.
C16_NeverEmptyByFiltering ==
    (SmartCalled /\ retrieved.hybrid_call.results # <<>> /\ Matching(Reranked) = <<>>) =>
        /\ retrieved.results = Truncate(Reranked, retrieved.k)
        /\ retrieved.results # <<>>

C16_Witness ==
    /\ SmartCalled
    /\ retrieved.use_filter
    /\ DOMAIN get_section_filter(retrieved.category) # {}
    /\ retrieved.hybrid_call.results # <<>>
    /\ Matching(Reranked) = <<>>

\* The words of a text: its maximal runs of non-blank characters.
Words(s) ==
    {SubSeq(s, p[1], p[2]) :
        p \in {q \in (1..Len(s)) \X (1..Len(s)) :
                  /\ q[1] <= q[2]
                  /\ \A m \in q[1]..q[2] : s[m] # " "
                  /\ q[1] = 1 \/ s[q[1] - 1] = " "
                  /\ q[2] = Len(s) \/ s[q[2] + 1] = " "}}

\* Twice the relevance score of a chunk for a query: 2 for each word of the
\* query that is a word of the chunk, 5 when the query occurs in the chunk,
\* 1.5 for each word of the query that occurs in the chunk, in lower case.
Score2(doc, query) ==
    LET q == lower(query)
        c == lower(doc.page_content)
    IN  4 * Cardinality(Words(q) \cap Words(c))
        + (IF str_in(q, c) THEN 10 ELSE 0)
        + 3 * Cardinality({w \in Words(q) : str_in(w, c)})

\* The place of a chunk in the list the Hybrid Retriever returned.
HybridPlace(doc) ==
    CHOOSE i \in 1..Len(retrieved.hybrid_call.results) : retrieved.hybrid_call.results[i] = doc

\* C17: the Smart Retriever's output is ordered by the relevance score
\* against the original query: a chunk with a strictly higher score comes
\* first, chunks of equal score keep the Hybrid Retriever's order.
C17_OrderedByOriginalQueryScore ==
    SmartCalled =>
        \A i, j \in 1..Len(retrieved.results) :
            i < j =>
                LET a == retrieved.results[i]
                    b == retrieved.results[j]
                IN  \/ Score2(a, retrieved.query) > Score2(b, retrieved.query)
                    \/ /\ Score2(a, retrieved.query) = Score2(b, retrieved.query)
                       /\ HybridPlace(a) < HybridPlace(b)

C17_Witness ==
    /\ SmartCalled
    /\ retrieved.query # retrieved.hybrid_call.query
    /\ \E i, j \in 1..Len(retrieved.results) :
           /\ i < j
           /\ HybridPlace(retrieved.results[i]) > HybridPlace(retrieved.results[j])
    /\ \E i, j \in 1..Len(retrieved.results) :
           /\ i < j
           /\ Score2(retrieved.results[i], retrieved.query) = Score2(retrieved.results[j], retrieved.query)

\* The texts made of at most two terms of a table entry, a blank before each.
UpToTwoTerms(terms) ==
    {<<>>} \cup {<<" ">> \o t : t \in set(terms)}
           \cup {<<" ">> \o t \o <<" ">> \o u : t \in set(terms), u \in set(terms)}

\* C18: the query sent to the Hybrid Retriever is the original query
\* followed by at most two terms of the category's entry in the synonym
\* table; it is the original query when the category is general or has no
\* entry, and is not the original query otherwise.
C18_ExpandedQuerySent ==
    retrieved.op = "smart" =>
        LET terms == expansions(retrieved.category)
            sent  == retrieved.hybrid_call.query
        IN  /\ \E suffix \in UpToTwoTerms(terms) : sent = retrieved.query \o suffix
            /\ (retrieved.category = "general" \/ terms = <<>>) => sent = retrieved.query
            /\ terms # <<>> => sent # retrieved.query

C18_Witness ==
    /\ retrieved.op = "smart"
    /\ retrieved.category = "skills"
    /\ Len(retrieved.hybrid_call.query) > Len(retrieved.query)

\* C19: when the filter applies and a candidate matches it, the Smart
\* Retriever returns the first k matching chunks of the whole re-ranked
\* list.
C19_FilterBeforeTruncation ==
    (SmartCalled /\ retrieved.use_filter /\ retrieved.category # "general"
                 /\ Matching(Reranked) # <<>>) =>
        retrieved.results = Truncate(Matching(Reranked), retrieved.k)

\* ------------------------------------------ claims on the vector store
\* An index of the manager's store type has been persisted.
Persisted ==
    IF manager.store_type = "chromadb" THEN disk.chroma.present ELSE disk.faiss.present

\* C20: for chromadb and faiss, load_vector_store with no persisted index
\* returns False and leaves vector_store unset; it returns True only when a
\* persisted index was loaded.
C20_LoadWithoutIndex ==
    (manager.state = "ready" /\ manager.store_type \in {"chromadb", "faiss"}
                             /\ manager.last.op = "load") =>
        /\ ~Persisted => (~manager.last.returned /\ ~manager.vector_store.set)
        /\ manager.last.returned => Persisted

\* ------------------------------------------- claims on the index guard
IndexOps == {"add_documents", "similarity_search", "similarity_search_with_score",
             "get_retriever"}

\* C21: add_documents, similarity_search, similarity_search_with_score and
\* get_retriever called while no index was created or loaded raise, and
\* leave the index, the store type and what is persisted as they were.
C21_IndexOpsRaiseBeforeIndex ==
    [][(/\ manager.state = "ready" /\ manager'.state = "ready"
        /\ ~manager.vector_store.set
        /\ manager'.last.op \in IndexOps
        /\ manager' # manager) =>
            /\ manager'.last.raised
            /\ manager'.vector_store = manager.vector_store
            /\ manager'.store_type = manager.store_type
            /\ manager'.adding = manager.adding
            /\ disk' = disk]_vars

C21_Witness ==
    /\ manager.state = "ready"
    /\ ~manager.vector_store.set
    /\ manager.last.op = "similarity_search"
    /\ manager.last.raised
    /\ disk.faiss.present

\* C23: a read that runs while add_documents appends a batch finds the
\* index as it was before the append or with the whole batch in it.
C23_AppendAtomicForReaders ==
    (manager.state = "ready" /\ manager.last.op \in {"similarity_search",
                                   "similarity_search_with_score", "count"}
                             /\ manager.last.batch # <<>>) =>
        manager.last.seen \in {manager.last.before, manager.last.before \o manager.last.batch}

\* --------------------------------------- claims on what changes a store
\* The step is a successful create_vector_store, or the library call and
\* persist of an add_documents.
CreateOrAppend ==
    \/ manager'.last.op = "create" /\ ~manager'.last.raised
    \/ manager.adding # <<>> /\ manager'.adding = <<>> /\ manager'.last.op = "add_documents"

\* C25: the chunks the Hybrid Retriever was built over (Document Store and
\* Keyword Index) never change once built, and the Semantic Index, in
\* memory and persisted, changes only in a create or append step;
\* update_weights changes the weight pair and nothing else of the retriever.
C25_StoresChangeOnlyByCreateAppend ==
    [][/\ (hybrid.state = "ready") =>
              (hybrid'.state = "ready" /\ hybrid'.documents = hybrid.documents)
       /\ (manager.state = "ready" /\ manager'.state = "ready") =>
              \/ manager'.vector_store = manager.vector_store /\ disk' = disk
              \/ CreateOrAppend]_vars

C25_Witness ==
    /\ hybrid.state = "ready"
    /\ hybrid.weights # DefaultWeights
    /\ retrieved.op = "smart"
    /\ manager.vector_store.docs = hybrid.documents
    /\ memory # <<>>

\* ------------------------------------------- claims on the rate limiter
\* The requests of the log that were allowed, made from time a on and less
\* than window seconds later.
AllowedIn(a, window) ==
    Len(SelectSeq(limiter.request_log,
                  LAMBDA e : e.allowed /\ e.ts >= a /\ e.ts < a + window))

\* C29: in every 60-second window at most requests_per_minute calls were
\* allowed and in every 3600-second window at most requests_per_hour; a
\* call denied for exceeding a limit blocks the address for 5 minutes
\* (minute limit) or 15 minutes (hour limit); a call made before the unblock
\* time is denied with reason temporarily_blocked.
C29_RateLimits ==
    limiter.state = "ready" =>
        /\ \A i \in 1..Len(limiter.request_log) :
              LET a == limiter.request_log[i].ts
              IN  /\ AllowedIn(a, MinuteWindow) <= limiter.requests_per_minute
                  /\ AllowedIn(a, HourWindow) <= limiter.requests_per_hour
        /\ limiter.last.op = "check_rate_limit" =>
              /\ (\E t \in limiter.last.blocked_before : limiter.last.at < t) =>
                     (~limiter.last.allowed /\ limiter.last.reason = "temporarily_blocked"
                         /\ limiter.blocked_ips = limiter.last.blocked_before)
              /\ limiter.last.reason = "rate_limit_exceeded" =>
                     /\ ~limiter.last.allowed
                     /\ limiter.blocked_ips =
                            {limiter.last.at + (IF limiter.last.limit_type = "per_minute"
                                                THEN MinuteBlock ELSE HourBlock)}
              /\ limiter.last.allowed => limiter.last.reason = ""

\* A call is denied as temporarily blocked after the hour limit was
\* exceeded with the minute limit respected.
C29_Witness ==
    /\ limiter.state = "ready"
    /\ limiter.last.op = "check_rate_limit"
    /\ limiter.last.reason = "temporarily_blocked"
    /\ \E i \in 1..Len(limiter.request_log) :
          LET e == limiter.request_log[i]
          IN  /\ ~e.allowed
              /\ e.ts + HourBlock \in limiter.blocked_ips
              /\ Len(recent(SubSeq(limiter.request_log, 1, i), e.ts, MinuteWindow))
                     <= limiter.requests_per_minute
    /\ \E a \in 0..limiter.now : AllowedIn(a, HourWindow) = limiter.requests_per_hour

\* -------------------------------------------------- claims on startup
\* C30: a startup that finds a persisted index and loads it, with models
\* that can be initialised, ends with the retrievers and the RAGChain
\* constructed and rag_chain set, and does not rebuild the index.
C30_StartupFromPersistedIndex ==
    (app.state \in {"up", "failed"} /\ app.persisted /\ app.loaded /\ app.models_ok) =>
        /\ app.state = "up"
        /\ ~app.rebuilt
        /\ hybrid.state = "ready"
        /\ chain.state = "ready"

\* ------------------------------------------- claims on the /chat handler
\* The step ends a request whose call of rag_chain.query raised.
QueryRaisedInChat ==
    /\ app.pending # None
    /\ calls[FirstSlot].pc = "raised"
    /\ app'.pending = None

\* C26: when rag_chain.query raises inside /chat, the handler answers 200
\* with the fallback text, no sources and model_used "fallback", appends the
\* error with the request's message to the analytics, and leaves the
\* response cache as it was.
C26_QueryFailureAnsweredByFallback ==
    [][QueryRaisedInChat =>
          /\ app'.last.request = app.pending
          /\ app'.last.response.status = 200
          /\ app'.last.response.response = get_fallback_response(app.pending.message)
          /\ app'.last.response.sources.empty
          /\ app'.last.response.model_used = "fallback"
          /\ app'.errors = Append(app.errors, [error |-> calls[FirstSlot].raised,
                                               query |-> app.pending.message])
          /\ app'.queries = app.queries
          /\ app'.cache = app.cache]_vars

C26_Witness ==
    /\ app.last.op = "chat"
    /\ app.last.response.model_used = "fallback"
    /\ app.last.request.conversation_history = <<>>
    /\ app.errors # <<>>
    /\ \A e \in app.cache : e.key # _get_cache_key(app.last.request.sanitized_message)

\* The request a step of chat takes up.
Taken == IF app'.pending # None THEN app'.pending ELSE app'.last.request

\* C28: a request is answered by the first of these that fires, in this
\* order: rate limit (429), chain not initialised (503), content filter,
\* availability words, scheduling intent, cache hit of a request without
\* history; rag_chain.query is called only when none fired, and the cache
\* is written and the query tracked only after such a call returned.
C28_GuardOrder ==
    [][/\ (app'.requests # app.requests) =>
              LET m == Taken.sanitized_message
                  answered == app'.pending = None
                  response == app'.last.response
                  untouched == /\ calls' = calls /\ app'.cache = app.cache
                               /\ app'.queries = app.queries /\ app'.errors = app.errors
              IN  /\ m = sanitize(Taken.message)
                  /\ IF ~check_rate_limit_result(limiter).allowed
                     THEN answered /\ response.status = 429 /\ untouched
                     ELSE IF chain.state # "ready"
                     THEN answered /\ response.status = 503 /\ untouched
                     ELSE IF ~is_safe(m)
                     THEN answered /\ response.model_used = "content_filter" /\ untouched
                     ELSE IF asks_availability(m)
                     THEN answered /\ response.model_used = "availability_manager" /\ untouched
                     ELSE IF detect_scheduling_intent(m)
                     THEN answered /\ response.model_used = "calendar_scheduler" /\ untouched
                     ELSE IF /\ Taken.conversation_history = <<>>
                             /\ \E e \in app.cache : /\ e.key = _get_cache_key(m)
                                                     /\ limiter.now <= e.timestamp + CacheTTL
                     THEN /\ answered /\ untouched
                          /\ \E e \in app.cache : e.key = _get_cache_key(m) /\ response = e.response
                     ELSE /\ ~answered
                          /\ calls'[FirstSlot].pc # "idle"
                          /\ calls'[FirstSlot].question = Txt(m)
                          /\ app'.queries = app.queries
                          /\ app'.cache \subseteq app.cache
       /\ (calls[FirstSlot].pc = "idle" /\ calls'[FirstSlot].pc # "idle") =>
              app'.requests # app.requests
       /\ (app'.queries # app.queries \/ ~(app'.cache \subseteq app.cache)) =>
              (app.pending # None /\ calls[FirstSlot].pc = "returned")]_vars

\* A request that both asks for availability and shows scheduling intent
\* was answered by the availability branch, after an earlier request was
\* answered by the chain and cached.
C28_Witness ==
    /\ app.last.op = "chat"
    /\ app.last.response.model_used = "availability_manager"
    /\ detect_scheduling_intent(app.last.request.sanitized_message)
    /\ app.cache # {}

\* ---------------------------------------- claims on the configuration
\* The configured primary model could not be initialised: the free model
\* when one is asked for, the OpenAI model otherwise.
PrimaryInitFails(use_free_model, free_model_type, groq_key, freeOk, primaryOk) ==
    IF use_free_model THEN get_free_llm(free_model_type, groq_key, freeOk).raised
    ELSE ~primaryOk

\* C22: a construction of RAGChain in which the configured primary model
\* cannot be initialised fails; it never ends with a constructed chain.
C22_PrimaryInitFailureAbortsConstruction ==
    [][\A retriever \in Retrievers, model_name \in ModelNames,
          temperature \in Temperatures, max_tokens \in MaxTokenValues,
          use_free_model \in BOOLEAN, free_model_type \in {"huggingface", "groq"},
          groq_key \in {"", "gsk"}, freeOk \in BOOLEAN, primaryOk \in BOOLEAN,
          fallbackOk \in BOOLEAN :
            (/\ chain.state = "unconstructed"
             /\ PrimaryInitFails(use_free_model, free_model_type, groq_key, freeOk, primaryOk)
             /\ Construct(retriever, model_name, temperature, max_tokens, use_free_model,
                          free_model_type, groq_key, freeOk, primaryOk, fallbackOk))
            => chain'.state = "failed"]_vars

\* C27: every model a call invokes, the primary and each fallback, has the
\* temperature and max_tokens the chain was constructed with.
C27_ConfiguredSampling ==
    Ready =>
        \A c \in Callers :
            calls[c].pc \in {"condense", "generate"} =>
                /\ LLMFor(calls[c].slot).temperature = chain.temperature
                /\ LLMFor(calls[c].slot).max_tokens = chain.max_tokens

\* ------------------------------------------- claims on overlapping calls
\* C24: the memory is one for all calls on the chain: what a call's chain
\* loads as chat history is the shared memory as it is at that moment,
\* whichever call wrote it.
C24_MemoryShared ==
    [][\A c \in Callers :
          (calls[c].pc = "load_memory" /\ calls'[c].pc # "load_memory") =>
              calls'[c].chat_history = memory]_vars

\* Two calls overlap and one is about to generate from the history the
\* other call's memory update wrote.
C24_Witness ==
    \E c, d \in Callers :
        /\ c # d
        /\ calls[c].pc = "generate"
        /\ calls[d].pc \notin {"idle", "returned", "raised"}
        /\ calls[c].history # calls[d].history
        /\ calls[c].chat_history = _update_memory(<<>>, calls[d].history)
        /\ calls[c].prompt.question.kind = "generated"
        /\ calls[c].prompt.question.input.chat_history = calls[c].chat_history

====
